---- MODULE Spec2Model ----
(***************************************************************************)
(* STOK inventory decision engine: the agent run (services/agent.py), the  *)
(* review handlers (routers/actions.py), the forecast cache                *)
(* (services/forecasting.py) and the uploads (routers/upload.py,           *)
(* services/csv_upload.py), over one shared database.                      *)
(*                                                                         *)
(* Database rows are records; a table is a sequence (pending_actions,      *)
(* audit_log) or a function keyed by the unique column (skus, inventory,   *)
(* forecast_cache).  A handler is split at the points where it reads or    *)
(* commits to the database, so that two handlers can overlap there.        *)
(* A session's db.add() is invisible to other sessions until db.commit().  *)
(*                                                                         *)
(* Numbers: a velocity is a rational [n, d] (units per day); a confidence  *)
(* and a weight are integers in thousandths (78.0 is 78000, 1.0 is 1000).  *)
(* A nullable column is <<>> (NULL) or <<v>>.                              *)
(***************************************************************************)
EXTENDS Integers, Sequences, FiniteSets, TLC

VARIABLES sku, inventory, sales, actions, audit, cache, now, run, rev, fc, up, ops, calc,
          links

vars == <<sku, inventory, sales, actions, audit, cache, now, run, rev, fc, up, ops, calc,
          links>>

----------------------------------------------------------------------------
(* Bounds of the model *)

\* handlers started in one behaviour
MaxOps == 3
\* hours the clock runs
MaxClock == 7
\* largest quantity the rounded square root is searched in
MaxEoq == 400

(* Program constants *)

\* forecasting.py:185  timedelta(hours=6)
CacheTtlHours == 6
\* feedback.py:36  len(reviewed) < 3
MinDecisions == 3
\* agent.py:35  return 50
DefaultEoq == 50
\* agent.py:147  days_until_stockout <= 5
StockoutThresholdDays == 5
\* agent.py:29  sum / days, days = 30
VelocityWindowDays == 30

----------------------------------------------------------------------------
(* Nullable columns and small helpers *)

None == <<>>
Some(v) == <<v>>
IsNone(x) == x = <<>>
Val(x) == x[1]
\* Python's `x or d` on a nullable number: NULL and 0 are both falsy
OrElse(x, d) == IF IsNone(x) \/ Val(x) = 0 THEN d ELSE Val(x)

Max(a, b) == IF a >= b THEN a ELSE b
Min(a, b) == IF a <= b THEN a ELSE b
Abs(a) == IF a < 0 THEN 0 - a ELSE a

\* round(n / d) for n >= 0, d > 0: Python rounds a half to the even neighbour
RoundDiv(n, d) ==
    LET q == n \div d
        r == n % d
    IN IF 2 * r < d THEN q
       ELSE IF 2 * r > d THEN q + 1
       ELSE IF q % 2 = 0 THEN q ELSE q + 1

\* dict.get(k, default)
Get(dict, k, default) == IF k \in DOMAIN dict THEN dict[k] ELSE default

EmptyMap == [k \in {} |-> 0]

RECURSIVE SeqSum(_)
SeqSum(s) == IF s = <<>> THEN 0 ELSE Head(s) + SeqSum(Tail(s))

RECURSIVE SelectSeq2(_, _)
\* the subsequence of s at the indices in the set idx, in order
SelectSeq2(s, idx) ==
    IF s = <<>> THEN <<>>
    ELSE LET n == Len(s)
             front == SelectSeq2(SubSeq(s, 1, n - 1), idx)
         IN IF n \in idx THEN Append(front, s[n]) ELSE front

----------------------------------------------------------------------------
(* The catalogue: skus, inventory, sales_history *)

Items == {"s1", "s2"}
\* the order in which a query returns the skus
ItemOrder == <<"s1", "s2">>
Runs == {"sched", "manual"}

\* models.py:22-36: column defaults reorder_point 20, safety_stock 10,
\* lead_time_days 7, moq 1; every column but sku_code and name is nullable
SkuDefault ==
    [reorder_point |-> 20, safety_stock |-> 10, lead_time_days |-> Some(7),
     moq |-> Some(1), unit_cost |-> Some(10), is_active |-> TRUE]

\* a sales_history row is keyed by (day, channel); day is its age in days
Channels == {"online", "retail"}
SaleDays == (1 .. 10) \cup {40}
\* channel is free text (models.py:94): the further channels day 1 has
\* rows of
ExtraChannels ==
    {"wholesale", "store1", "store2", "store3", "store4", "store5", "store6", "store7"}
SaleKeys == (SaleDays \X Channels) \cup ({1} \X ExtraChannels)
NoRow == 0 - 1
NoSales == [k \in SaleKeys |-> NoRow]

\* ten daily rows of 15 units: 150 units in the 30-day window, 5 a day
FastSales == [k \in SaleKeys |-> IF k[1] <= 10 /\ k[2] = "online" THEN 15 ELSE NoRow]
\* FastSales and 4 units more in another channel: 154 units in the window
MixedSales == [FastSales EXCEPT ![<<1, "retail">>] = 4]
\* one row of 2 units: 2 units in the window, under 0.1 a day
SlowSales == [k \in SaleKeys |-> IF k = <<1, "online">> THEN 2 ELSE NoRow]
\* nine daily rows of 15 units
NineSales == [k \in SaleKeys |-> IF k[1] <= 9 /\ k[2] = "online" THEN 15 ELSE NoRow]
\* three daily rows of 15 units
ThreeSales == [k \in SaleKeys |-> IF k[1] <= 3 /\ k[2] = "online" THEN 15 ELSE NoRow]
\* the first day of sales, a row of 5 units in each of ten channels
OneDaySales == [k \in SaleKeys |-> IF k[1] = 1 THEN 5 ELSE NoRow]
\* the first day of sales, a row in each of three channels
OpeningSales ==
    [k \in SaleKeys |-> IF k[1] = 1 /\ k[2] \in {"online", "retail", "wholesale"}
                        THEN 5 ELSE NoRow]

\* the databases a behaviour starts from: skus, stock and sales as uploaded
\*   DbPlain: s1 sells fast and is out of stock; s2 never sold, 200 in stock
\*   DbNullMoq: as DbPlain, but s2 sells fast, is out of stock, and its moq is NULL
\*   DbSlow: s1 sells slowly, 60 in stock under a reorder point of 100;
\*           s2 sells fast with 200 in stock
DbPlain ==
    [sku |-> [s \in Items |-> SkuDefault],
     inventory |-> [s \in Items |-> IF s = "s1" THEN 0 ELSE 200],
     sales |-> [s \in Items |-> IF s = "s1" THEN FastSales ELSE NoSales]]
DbNullMoq ==
    [sku |-> [s \in Items |-> IF s = "s1" THEN SkuDefault
                              ELSE [SkuDefault EXCEPT !.moq = None]],
     inventory |-> [s \in Items |-> 0],
     sales |-> [s \in Items |-> FastSales]]
DbSlow ==
    [sku |-> [s \in Items |-> IF s = "s1" THEN [SkuDefault EXCEPT !.reorder_point = 100]
                              ELSE SkuDefault],
     inventory |-> [s \in Items |-> IF s = "s1" THEN 60 ELSE 200],
     sales |-> [s \in Items |-> IF s = "s1" THEN SlowSales ELSE FastSales]]

\*   DbBusy: s1 as in DbSlow (an order and a markdown are due), s2 sells
\*           154 in 30 days and has 15 in stock (an order is due, 4.08
\*           days after the stock runs out)
DbBusy ==
    [sku |-> [s \in Items |-> IF s = "s1" THEN [SkuDefault EXCEPT !.reorder_point = 100]
                              ELSE SkuDefault],
     inventory |-> [s \in Items |-> IF s = "s1" THEN 60 ELSE 15],
     sales |-> [s \in Items |-> IF s = "s1" THEN SlowSales ELSE MixedSales]]

InitDbs == {DbPlain, DbNullMoq, DbSlow}

----------------------------------------------------------------------------
(* Pure functions of services/agent.py and services/market_data.py *)

RECURSIVE SumRows(_, _)
SumRows(rows, keys) ==
    IF keys = {} THEN 0
    ELSE LET k == CHOOSE x \in keys : TRUE
         IN rows[k] + SumRows(rows, keys \ {k})

\* the rows run_agent loads for an item: date >= now - 60 days
AgentWindow(rows) == {k \in SaleKeys : rows[k] # NoRow /\ k[1] <= 60}

\* compute_daily_velocity(sales_df, days=30) as a rational n / d
compute_daily_velocity(rows) ==
    LET window == AgentWindow(rows)
        recent == {k \in window : k[1] <= VelocityWindowDays}
    IN IF window = {} THEN [n |-> 0, d |-> 1]
       ELSE IF recent = {} THEN [n |-> SumRows(rows, window), d |-> Cardinality(window)]
       ELSE [n |-> SumRows(rows, recent), d |-> VelocityWindowDays]

\* round(sqrt(a / b)) for a >= 0, b > 0; a half goes to the even neighbour
RoundSqrt(a, b) ==
    CHOOSE k \in 0 .. MaxEoq :
        /\ \/ 4 * a < (2 * k + 1) * (2 * k + 1) * b
           \/ 4 * a = (2 * k + 1) * (2 * k + 1) * b /\ k % 2 = 0
        /\ \/ k = 0
           \/ (2 * k - 1) * (2 * k - 1) * b < 4 * a
           \/ (2 * k - 1) * (2 * k - 1) * b = 4 * a /\ k % 2 = 0

\* compute_eoq(annual_demand, order_cost=50, holding_rate=0.25, unit_cost):
\* annual_demand is the rational n / d
compute_eoq(annual_demand, unit_cost) ==
    IF annual_demand.n <= 0 \/ unit_cost <= 0 THEN DefaultEoq
    ELSE Max(1, RoundSqrt(2 * annual_demand.n * 50 * 4, annual_demand.d * unit_cost))

EmptyCtx == EmptyMap

\* what get_market_context() can return: every fetch failure inside it
\* degrades to "neutral" / "normal"
MarketContext(se, sh) ==
    [k \in {"market_sentiment", "shipping_stress"} |->
        IF k = "market_sentiment" THEN se ELSE sh]
\* the contexts the runs of the model fetch: a calm and a stressed market
FetchedContexts ==
    {MarketContext("neutral", "normal"), MarketContext("volatile", "elevated")}

\* the quantities q in 0 .. 1000 whose double product q * 1.15 lies under
\* the integer q * 115 / 100 (100 * 1.15 is 114.99999999999999); there is
\* no such quantity for q * 1.10
ShortOf115 ==
    {100, 180, 200, 220, 340, 360, 380, 400, 420, 440, 660, 680, 700, 720, 740,
     760, 780, 800, 820, 840, 860, 880}

\* int(qty * 1.15) (market_data.py:141): the double product, truncated
IntTimes115(qty) ==
    IF qty \in ShortOf115 THEN (qty * 115) \div 100 - 1 ELSE (qty * 115) \div 100

\* int(qty * 1.10) (market_data.py:146)
IntTimes110(qty) == (qty * 110) \div 100

\* adjust_reorder_qty_for_market(base_qty, market_context), for
\* 0 <= base_qty <= 1000
adjust_reorder_qty_for_market(base_qty, market_context) ==
    LET sentiment == Get(market_context, "market_sentiment", "neutral")
        shipping == Get(market_context, "shipping_stress", "normal")
        q1 == IF sentiment = "volatile" THEN IntTimes115(base_qty) ELSE base_qty
        q2 == IF shipping = "elevated" THEN IntTimes110(q1) ELSE q1
    IN Max(q2, base_qty)

----------------------------------------------------------------------------
(* services/feedback.py *)

DefaultWeights ==
    [approval_rate |-> 1000, qty_bias |-> 1000, confidence_threshold |-> 70000,
     type_weights |-> EmptyMap, priority_weights |-> EmptyMap, data_points |-> 0]

ActionTypes == {"order", "transfer", "price", "return", "disposal"}
Priorities == {"urgent", "high", "normal"}

RECURSIVE SumRat(_)
\* the sum of a sequence of rationals, as a rational
SumRat(s) ==
    IF s = <<>> THEN [n |-> 0, d |-> 1]
    ELSE LET r == SumRat(Tail(s))
         IN [n |-> Head(s).n * r.d + r.n * Head(s).d, d |-> Head(s).d * r.d]

RECURSIVE Insert(_, _)
Insert(x, s) ==
    IF s = <<>> THEN <<x>>
    ELSE IF x <= Head(s) THEN <<x>> \o s
    ELSE <<Head(s)>> \o Insert(x, Tail(s))

RECURSIVE SortAsc(_)
SortAsc(s) == IF s = <<>> THEN <<>> ELSE Insert(Head(s), SortAsc(Tail(s)))

\* np.percentile(values, 25) with linear interpolation, values in thousandths
Percentile25(values) ==
    LET v == SortAsc(values)
        m == Len(v)
        lo == ((m - 1) \div 4) + 1
        hi == IF lo < m THEN lo + 1 ELSE lo
    IN v[lo] + ((v[hi] - v[lo]) * ((m - 1) % 4)) \div 4

\* the audit row compute_feedback_weights pairs with an action:
\* entity_id == action.id, outcome == "modified", first match
ModifiedAudit(aud, id) ==
    LET hits == {i \in 1 .. Len(aud) : aud[i].entity_id = id /\ aud[i].outcome = "modified"}
    IN IF hits = {} THEN None
       ELSE Some(aud[CHOOSE i \in hits : \A j \in hits : i <= j])

\* the fraction of the rows at idx (indices into acts) that are approved
ApprovedShare(acts, idx) ==
    [n |-> Cardinality({i \in idx : acts[i].status = "approved"}), d |-> Cardinality(idx)]

\* a faulty variant of the query: the cutoff is left out
ReviewedEver(acts, clock) ==
    {i \in 1 .. Len(acts) : acts[i].status \in {"approved", "rejected"}}

\* feedback.py:30-34: the actions approved or rejected in the last 90 days
\* (2160 hours)
ReviewedInWindow(acts, clock) ==
    {i \in 1 .. Len(acts) :
        /\ acts[i].status \in {"approved", "rejected"}
        /\ ~IsNone(acts[i].reviewed_at)
        /\ Val(acts[i].reviewed_at) >= clock - 2160}

\* compute_feedback_weights(db)
compute_feedback_weights(acts, aud, clock) ==
    LET reviewed == ReviewedInWindow(acts, clock)
        total == Cardinality(reviewed)
        approved == {i \in reviewed : acts[i].status = "approved"}
        withRatio == {i \in approved :
                        LET a == ModifiedAudit(aud, i)
                        IN /\ ~IsNone(a)
                           /\ OrElse(Val(a).qty_override, 0) # 0
                           /\ OrElse(acts[i].recommended_qty, 0) # 0}
        ratios == [i \in withRatio |->
                     [n |-> Val(Val(ModifiedAudit(aud, i)).qty_override),
                      d |-> Val(acts[i].recommended_qty)]]
        ratioSeq == SelectSeq2([i \in 1 .. Len(acts) |->
                                   IF i \in withRatio THEN ratios[i] ELSE [n |-> 0, d |-> 1]],
                               withRatio)
        sum == SumRat(ratioSeq)
        cnt == Cardinality(withRatio)
        \* float(np.mean(qty_ratios)) clamped to [0.5, 2.0], round(.., 3)
        qty_bias == IF cnt = 0 THEN 1000
                    ELSE IF 2 * sum.n < sum.d * cnt THEN 500
                    ELSE IF sum.n > 2 * sum.d * cnt THEN 2000
                    ELSE RoundDiv(1000 * sum.n, sum.d * cnt)
        types == {t \in ActionTypes : \E i \in reviewed : acts[i].type = t}
        prios == {p \in Priorities : \E i \in reviewed : acts[i].priority = p}
        confSeq == SelectSeq2([i \in 1 .. Len(acts) |-> acts[i].confidence_score],
                              {i \in approved : acts[i].confidence_score # 0})
    IN IF total < MinDecisions
       THEN [DefaultWeights EXCEPT !.data_points = total]
       ELSE [approval_rate |-> RoundDiv(1000 * Cardinality(approved), total),
             qty_bias |-> qty_bias,
             confidence_threshold |->
                 IF confSeq = <<>> THEN 70000
                 ELSE 100 * RoundDiv(Percentile25(confSeq), 100),
             type_weights |->
                 [t \in types |-> ApprovedShare(acts, {i \in reviewed : acts[i].type = t})],
             priority_weights |->
                 [p \in prios |-> ApprovedShare(acts, {i \in reviewed : acts[i].priority = p})],
             data_points |-> total]

\* a faulty variant of the feedback adjustment: the confidence is rounded
\* but not clamped
apply_feedback_unclamped(action_type, priority, base_qty, base_confidence, weights) ==
    LET qty_bias == weights.qty_bias
        tw == weights.type_weights
        scaled == IF action_type \in DOMAIN tw
                  THEN (base_confidence * (tw[action_type].d + tw[action_type].n))
                           \div (2 * tw[action_type].d)
                  ELSE base_confidence
    IN [qty |-> RoundDiv(base_qty * qty_bias, 1000),
        confidence |-> 100 * RoundDiv(scaled, 100)]

\* apply_feedback_to_action(action_type, priority, base_qty, base_confidence,
\* weights): the adjusted quantity and the adjusted confidence
apply_feedback_to_action(action_type, priority, base_qty, base_confidence, weights) ==
    LET qty_bias == weights.qty_bias
        tw == weights.type_weights
        scaled == IF action_type \in DOMAIN tw
                  THEN (base_confidence * (tw[action_type].d + tw[action_type].n))
                           \div (2 * tw[action_type].d)
                  ELSE base_confidence
    IN [qty |-> RoundDiv(base_qty * qty_bias, 1000),
        confidence |-> 100 * RoundDiv(Min(99000, Max(40000, scaled)), 100)]

----------------------------------------------------------------------------
(* Rows of pending_actions and audit_log *)

\* models.PendingAction with the extra_data of agent.py:230-236; made_by
\* records the run that added the row; supplier_id is the index of the
\* link selected among the links of the sku
ActionRow(item, type, priority, qty, value, confidence, base, market, supplier_id, r) ==
    [sku_id |-> item, type |-> type, priority |-> priority, supplier_id |-> supplier_id,
     recommended_value |-> value,
     recommended_qty |-> qty, confidence_score |-> confidence,
     status |-> "pending", reviewed_at |-> None, reviewed_by |-> None,
     base_eoq |-> base, market_adjusted_qty |-> market,
     feedback_adjusted_qty |-> qty, made_by |-> r]

\* models.AuditLog; entity_id 0 is NULL
AuditRow(event, entity, user, outcome, override) ==
    [event_type |-> event, entity_id |-> entity, user |-> user, outcome |-> outcome,
     qty_override |-> override, skus_scanned |-> 0, actions_created |-> 0,
     urgent_count |-> 0]

PendingOf(acts, item, types) ==
    {i \in 1 .. Len(acts) :
        acts[i].sku_id = item /\ acts[i].type \in types /\ acts[i].status = "pending"}

----------------------------------------------------------------------------
(* run_agent: one item of the scan (agent.py:129-273) *)

\* days_until_stockout = current_stock / velocity - lead_time_days, times
\* velocity.n, for velocity > 0
StockoutNumer(current_stock, velocity, lead) ==
    current_stock * velocity.d - lead * velocity.n

\* the pairs <<stock, n>>, stock <= 300 and n <= 160, for which the double
\* stock / (n / 30) of agent.py:144 lies above the quotient, a whole
\* number (11 / (22 / 30) is 15.000000000000002); no double quotient lies
\* above a whole quotient when the velocity is n / 1 or n / 2
OverQuotients ==
    {<<11, 11>>, <<11, 22>>, <<21, 21>>, <<21, 42>>, <<22, 11>>, <<22, 22>>,
     <<22, 44>>, <<42, 21>>, <<42, 42>>, <<42, 84>>, <<44, 11>>, <<44, 22>>,
     <<44, 44>>, <<44, 88>>, <<65, 65>>, <<65, 130>>, <<69, 69>>,
     <<69, 138>>, <<73, 73>>, <<73, 146>>, <<77, 11>>, <<77, 22>>,
     <<84, 21>>, <<84, 42>>, <<84, 84>>, <<88, 11>>, <<88, 22>>, <<88, 44>>,
     <<88, 88>>, <<103, 103>>, <<115, 69>>, <<115, 138>>, <<117, 65>>,
     <<117, 130>>, <<123, 123>>, <<130, 65>>, <<130, 130>>, <<131, 131>>,
     <<138, 69>>, <<138, 138>>, <<145, 145>>, <<146, 73>>, <<146, 146>>,
     <<153, 153>>, <<154, 11>>, <<154, 22>>, <<154, 44>>, <<161, 21>>,
     <<161, 42>>, <<165, 11>>, <<165, 22>>, <<168, 21>>, <<168, 42>>,
     <<168, 84>>, <<175, 21>>, <<175, 42>>, <<176, 11>>, <<176, 22>>,
     <<176, 44>>, <<176, 88>>, <<187, 11>>, <<187, 22>>, <<205, 123>>,
     <<206, 103>>, <<219, 73>>, <<219, 146>>, <<230, 69>>, <<230, 138>>,
     <<234, 65>>, <<234, 130>>, <<246, 123>>, <<247, 65>>, <<247, 130>>,
     <<253, 69>>, <<253, 138>>, <<260, 65>>, <<260, 130>>, <<262, 131>>,
     <<273, 65>>, <<273, 130>>, <<276, 69>>, <<276, 138>>, <<290, 145>>,
     <<292, 73>>, <<292, 146>>, <<297, 11>>, <<297, 22>>}

\* days_until_stockout <= t as agent.py:145-147 and 155-156 compute it on
\* doubles, t a whole number of days: a quotient that lies above the whole
\* number it stands for fails the test at equality
StockoutAtMost(current_stock, velocity, lead, t) ==
    LET x == StockoutNumer(current_stock, velocity, lead)
    IN \/ x < t * velocity.n
       \/ /\ x = t * velocity.n
          /\ ~(velocity.d = 30 /\ <<current_stock, velocity.n>> \in OverQuotients)

\* agent.py:155-156
PriorityOf(current_stock, velocity, lead) ==
    IF StockoutAtMost(current_stock, velocity, lead, 1) THEN "urgent"
    ELSE IF StockoutAtMost(current_stock, velocity, lead, 3) THEN "high" ELSE "normal"

\* agent.py:147
ReorderTrigger(current_stock, velocity, item) ==
    \/ current_stock <= item.reorder_point
    \/ StockoutAtMost(current_stock, velocity, Val(item.lead_time_days),
                      StockoutThresholdDays)

\* a faulty variant of the duplicate check: the query is left out
NoPendingCheck(acts, s) == TRUE

\* a faulty variant of the duplicate check: the status is not part of the
\* query, an order action of any status stands for the item
NoOrderOnFile(acts, s) ==
    {i \in 1 .. Len(acts) : acts[i].sku_id = s /\ acts[i].type = "order"} = {}

\* agent.py:148-154: no pending order action of the item in the database
NoPendingOrder(acts, s) == PendingOf(acts, s, {"order"}) = {}

\* agent.py:244-249
NoPendingMarkdown(acts, s) == PendingOf(acts, s, {"price", "return"}) = {}

\* agent.py:172-175, in thousandths
OrderBaseConfidence(current_stock, velocity, item) ==
    LET x == StockoutNumer(current_stock, velocity, Val(item.lead_time_days))
        bonus == IF current_stock <= item.safety_stock THEN 10000 ELSE 0
    IN Min(97000, Max(60000, 90000 - (2000 * Abs(x)) \div velocity.n + bonus))

\* agent.py:241-243: days_of_supply = stock / max(velocity, 0.01) > 180
SlowMover(current_stock, velocity) ==
    /\ 10 * velocity.n < velocity.d
    /\ current_stock > 50
    /\ IF 100 * velocity.n > velocity.d
       THEN current_stock * velocity.d > 180 * velocity.n
       ELSE current_stock * 100 > 180

\* whether the reorder branch is entered and reaches db.add
OrderDue(acts, s, item, current_stock, velocity) ==
    /\ velocity.n > 0
    /\ ReorderTrigger(current_stock, velocity, item)
    /\ NoPendingOrder(acts, s)

\* the TypeError of agent.py:145 (lead_time_days NULL) or agent.py:162 (moq NULL)
ItemRaises(acts, s, item, current_stock, velocity) ==
    /\ velocity.n > 0
    /\ \/ IsNone(item.lead_time_days)
       \/ OrderDue(acts, s, item, current_stock, velocity) /\ IsNone(item.moq)

\* float(x or default) (agent.py:70-73): NULL and 0 both give the default
OrDefault(x, default) == IF IsNone(x) \/ Val(x) = 0 THEN default ELSE Val(x)

\* a Supplier row (models.py:43-57): the rates in hundredths, the lead time
\* in days, the cost variance in percent; a link's supplier is None when
\* no supplier row has its supplier_id
SupplierRow(otd, quality, lead_time, cost_var) ==
    [on_time_delivery_rate |-> otd, quality_rate |-> quality,
     avg_lead_time_days |-> lead_time, cost_variance_pct |-> cost_var]

\* the suppliers on file, by their score (in hundredths) unpreferred:
\* 80.00, 47.50, -2.50, -6.25, 66.50 (no metric known), 52.50 (on-time
\* rate 0, scored as 0.8) and 40.50
SupplierRows ==
    { SupplierRow(Some(95), Some(90), Some(5), Some(2)),
      SupplierRow(Some(70), Some(70), Some(20), Some(10)),
      SupplierRow(Some(10), Some(10), Some(30), Some(10)),
      SupplierRow(Some(5), Some(5), Some(40), Some(20)),
      SupplierRow(None, None, None, None),
      SupplierRow(Some(0), Some(50), Some(14), Some(5)),
      SupplierRow(Some(50), Some(50), Some(14), Some(5)) }

\* an SKUSupplier row (models.py:62-73) with the supplier row it names
SkuSupplierRows ==
    [supplier : {None} \cup {Some(r) : r \in SupplierRows}, is_preferred : BOOLEAN]

\* the score of agent.py:75-82, in hundredths
LinkScore(sku_sup) ==
    LET supplier == Val(sku_sup.supplier)
        otd == OrDefault(supplier.on_time_delivery_rate, 80)
        quality == OrDefault(supplier.quality_rate, 90)
        lead_time == OrDefault(supplier.avg_lead_time_days, 14)
        cost_var == OrDefault(supplier.cost_variance_pct, 5)
    IN otd * 40 + quality * 35 + Max(0, 30 - lead_time) * 50 - Min(cost_var, 10) * 100
       + (IF sku_sup.is_preferred THEN 200 ELSE 0)

RECURSIVE BestFrom(_, _, _, _)
\* the loop of agent.py:63-87 from link i on: the index of
\* best_sku_supplier after it, 0 for None
BestFrom(sku_suppliers, i, best_score, best_sku_supplier) ==
    IF i > Len(sku_suppliers) THEN best_sku_supplier
    ELSE IF IsNone(sku_suppliers[i].supplier)
    THEN BestFrom(sku_suppliers, i + 1, best_score, best_sku_supplier)
    ELSE IF LinkScore(sku_suppliers[i]) > best_score
    THEN BestFrom(sku_suppliers, i + 1, LinkScore(sku_suppliers[i]), i)
    ELSE BestFrom(sku_suppliers, i + 1, best_score, best_sku_supplier)

\* _pick_best_supplier (agent.py:46-89) over the links of one sku: the
\* index of the link returned, 0 for None
_pick_best_supplier(sku_suppliers) ==
    IF sku_suppliers = <<>> THEN 0
    ELSE IF Len(sku_suppliers) = 1 THEN 1
    ELSE LET best_sku_supplier == BestFrom(sku_suppliers, 1, 0 - 100, 0)
         IN IF best_sku_supplier # 0 THEN best_sku_supplier ELSE 1

\* the sku_suppliers rows on file: s1 has two candidate suppliers, the
\* second preferred; s2 has none
LinksOnFile ==
    [s \in Items |->
        IF s = "s1"
        THEN << [supplier |-> Some(SupplierRow(Some(95), Some(90), Some(5), Some(2))),
                 is_preferred |-> FALSE],
                [supplier |-> Some(SupplierRow(Some(70), Some(70), Some(20), Some(10))),
                 is_preferred |-> TRUE] >>
        ELSE <<>>]

\* agent.py:155-238: the order row added for the item.  No operation
\* writes sku_suppliers, so the links read at agent.py:184 are LinksOnFile
OrderFor(r, s, item, current_stock, velocity, market_context, weights, apply_ok) ==
    LET priority == PriorityOf(current_stock, velocity, Val(item.lead_time_days))
        annual_demand == [n |-> velocity.n * 365, d |-> velocity.d]
        eoq == compute_eoq(annual_demand, OrElse(item.unit_cost, 10))
        base_qty == Max(eoq, Val(item.moq))
        market_qty == adjust_reorder_qty_for_market(base_qty, market_context)
        base_confidence == OrderBaseConfidence(current_stock, velocity, item)
        fb == IF apply_ok
              THEN apply_feedback_to_action("order", priority, market_qty,
                                            base_confidence, weights)
              ELSE [qty |-> market_qty, confidence |-> base_confidence]
        sku_supplier == _pick_best_supplier(LinksOnFile[s])
        \* agent.py:187-188; the links on file carry no unit cost
        unit_cost == OrElse(item.unit_cost, 0)
    IN ActionRow(s, "order", priority, Some(fb.qty), Some(fb.qty * unit_cost), fb.confidence,
                 Some(base_qty), Some(market_qty),
                 IF sku_supplier = 0 THEN None ELSE Some(sku_supplier), r)

\* agent.py:250-273: the markdown row added for the item
MarkdownFor(r, s, weights, apply_ok) ==
    LET fb == IF apply_ok
              THEN apply_feedback_to_action("price", "normal", 0, 78000, weights)
              ELSE [qty |-> 0, confidence |-> 78000]
    IN ActionRow(s, "price", "normal", None, Some(0 - 15), fb.confidence, None, None, None, r)

\* a faulty variant of the loop body: the slow-mover check is the else
\* branch of the reorder check
RowsForEither(r, acts, s, item, current_stock, velocity, market_context, weights, apply_ok) ==
    IF OrderDue(acts, s, item, current_stock, velocity)
    THEN <<OrderFor(r, s, item, current_stock, velocity, market_context, weights, apply_ok)>>
    ELSE IF SlowMover(current_stock, velocity) /\ NoPendingMarkdown(acts, s)
    THEN <<MarkdownFor(r, s, weights, apply_ok)>>
    ELSE <<>>

\* the rows one pass of the loop body adds to the session
RowsFor(r, acts, s, item, current_stock, velocity, market_context, weights, apply_ok) ==
    (IF OrderDue(acts, s, item, current_stock, velocity)
     THEN <<OrderFor(r, s, item, current_stock, velocity, market_context, weights, apply_ok)>>
     ELSE <<>>)
    \o
    (IF SlowMover(current_stock, velocity) /\ NoPendingMarkdown(acts, s)
     THEN <<MarkdownFor(r, s, weights, apply_ok)>>
     ELSE <<>>)

----------------------------------------------------------------------------
(* run_agent as a process: the scheduler job (main.py:80-89) and the manual *)
(* trigger (routers/data.py:175-179) each run it in a session of their own  *)

RunIdle ==
    [pc |-> "idle", market_context |-> EmptyCtx, weights |-> DefaultWeights,
     apply_ok |-> TRUE, todo |-> <<>>, skus_scanned |-> 0, added |-> <<>>,
     actions_created |-> 0, urgent_count |-> 0, ret |-> None, mail |-> "none",
     market_failed |-> FALSE, feedback_failed |-> FALSE]

RunResting(r) == run[r].pc = "idle"
RunEnded(r) == run[r].pc \in {"done", "failed"}

\* a faulty variant of the start of a run: the exception of the market
\* fetch is not caught and ends the run
StartRunFatal(r) ==
    /\ RunResting(r)
    /\ ops < MaxOps
    /\ ops' = ops + 1
    /\ \/ \E ctx \in FetchedContexts :
             run' = [run EXCEPT ![r] = [RunIdle EXCEPT !.pc = "feedback",
                                                       !.market_context = ctx]]
       \/ run' = [run EXCEPT ![r] = [RunIdle EXCEPT !.pc = "failed",
                                                    !.market_failed = TRUE]]
    /\ UNCHANGED <<sku, inventory, sales, actions, audit, cache, now, rev, fc, up,
                 calc, links>>

\* agent.py:101-112: a call of run_agent begins and acquires the market
\* context, or {} when acquiring it raises (no database access up to here)
StartRun(r) ==
    /\ RunResting(r)
    /\ ops < MaxOps
    /\ ops' = ops + 1
    /\ \/ \E ctx \in FetchedContexts :
             run' = [run EXCEPT ![r] = [RunIdle EXCEPT !.pc = "feedback",
                                                       !.market_context = ctx]]
       \/ run' = [run EXCEPT ![r] = [RunIdle EXCEPT !.pc = "feedback",
                                                    !.market_context = EmptyCtx,
                                                    !.market_failed = TRUE]]
    /\ UNCHANGED <<sku, inventory, sales, actions, audit, cache, now, rev, fc, up,
                 calc, links>>

\* the skus of agent.py:126, in query order
ActiveSkus == SelectSeq(ItemOrder, LAMBDA s : sku[s].is_active)

\* agent.py:114-126: the feedback weights, logged by log_feedback_run
\* (feedback.py:142-153, which commits), or the defaults when the import,
\* the computation or the logging raises
LoadFeedback(r) ==
    /\ run[r].pc = "feedback"
    /\ \/ LET w == compute_feedback_weights(actions, audit, now)
          IN /\ audit' = Append(audit, AuditRow("RETRAIN", 0, "AI Agent", "executed", None))
             /\ run' = [run EXCEPT ![r].pc = "scan", ![r].weights = w,
                                   ![r].todo = ActiveSkus,
                                   ![r].skus_scanned = Len(ActiveSkus)]
       \/ \E imported \in BOOLEAN :
             /\ audit' = audit
             /\ run' = [run EXCEPT ![r].pc = "scan", ![r].weights = DefaultWeights,
                                   ![r].apply_ok = imported,
                                   ![r].feedback_failed = TRUE,
                                   ![r].todo = ActiveSkus,
                                   ![r].skus_scanned = Len(ActiveSkus)]
    /\ UNCHANGED <<sku, inventory, sales, actions, cache, now, rev, fc, up, ops,
                 calc, links>>

\* a faulty variant of the loop body: the quantity ordered is booked as
\* stock of the sku
ScanItemBooking(r) ==
    /\ run[r].pc = "scan"
    /\ run[r].todo # <<>>
    /\ LET s == Head(run[r].todo)
           item == sku[s]
           current_stock == inventory[s]
           velocity == compute_daily_velocity(sales[s])
       IN IF ItemRaises(actions, s, item, current_stock, velocity)
          THEN /\ run' = [run EXCEPT ![r].pc = "failed", ![r].added = <<>>]
               /\ inventory' = inventory
          ELSE LET rows == RowsFor(r, actions, s, item, current_stock, velocity,
                                   run[r].market_context, run[r].weights,
                                   run[r].apply_ok)
                   urgent == Len(SelectSeq(rows, LAMBDA a :
                                 a.type = "order" /\ a.priority = "urgent"))
               IN /\ run' = [run EXCEPT ![r].todo = Tail(@),
                                        ![r].added = @ \o rows,
                                        ![r].actions_created = @ + Len(rows),
                                        ![r].urgent_count = @ + urgent]
                  /\ inventory' = [inventory EXCEPT ![s] = @ + Len(rows)]
    /\ UNCHANGED <<sku, sales, actions, audit, cache, now, rev, fc, up, ops,
                 calc, links>>

\* agent.py:129-273: the loop body for the next sku.  An exception leaves
\* run_agent; the caller closes the session, which discards what it added
ScanItem(r) ==
    /\ run[r].pc = "scan"
    /\ run[r].todo # <<>>
    /\ LET s == Head(run[r].todo)
           item == sku[s]
           current_stock == inventory[s]
           velocity == compute_daily_velocity(sales[s])
       IN IF ItemRaises(actions, s, item, current_stock, velocity)
          THEN run' = [run EXCEPT ![r].pc = "failed", ![r].added = <<>>]
          ELSE LET rows == RowsFor(r, actions, s, item, current_stock, velocity,
                                   run[r].market_context, run[r].weights,
                                   run[r].apply_ok)
                   urgent == Len(SelectSeq(rows, LAMBDA a :
                                 a.type = "order" /\ a.priority = "urgent"))
               IN run' = [run EXCEPT ![r].todo = Tail(@),
                                     ![r].added = @ \o rows,
                                     ![r].actions_created = @ + Len(rows),
                                     ![r].urgent_count = @ + urgent]
    /\ UNCHANGED <<sku, inventory, sales, actions, audit, cache, now, rev, fc, up, ops,
                 calc, links>>

\* a faulty variant of the summary: actions_created counts the whole table
SummaryOfTable(r) ==
    /\ run[r].pc = "scan"
    /\ run[r].todo = <<>>
    /\ actions' = actions \o run[r].added
    /\ audit' = Append(audit,
                  [AuditRow("GENERATE", 0, "AI Agent", "executed", None)
                     EXCEPT !.skus_scanned = run[r].skus_scanned,
                            !.actions_created = Len(actions) + run[r].actions_created,
                            !.urgent_count = run[r].urgent_count])
    /\ run' = [run EXCEPT ![r].pc = "email", ![r].added = <<>>]
    /\ UNCHANGED <<sku, inventory, sales, cache, now, rev, fc, up, ops, calc, links>>

\* agent.py:276-290: the summary audit row, and the commit of the session
Summary(r) ==
    /\ run[r].pc = "scan"
    /\ run[r].todo = <<>>
    /\ actions' = actions \o run[r].added
    /\ audit' = Append(audit,
                  [AuditRow("GENERATE", 0, "AI Agent", "executed", None)
                     EXCEPT !.skus_scanned = run[r].skus_scanned,
                            !.actions_created = run[r].actions_created,
                            !.urgent_count = run[r].urgent_count])
    /\ run' = [run EXCEPT ![r].pc = "email", ![r].added = <<>>]
    /\ UNCHANGED <<sku, inventory, sales, cache, now, rev, fc, up, ops, calc, links>>

\* a faulty variant of the notification: a mail that raises ends run_agent
\* without its return value
SendSummaryFatal(r) ==
    /\ run[r].pc = "email"
    /\ \E outcome \in (IF run[r].urgent_count = 0 THEN {"skipped", "raised"}
                       ELSE {"sent", "failed", "raised"}) :
          run' = [run EXCEPT ![r].pc = IF outcome = "raised" THEN "failed" ELSE "done",
                             ![r].mail = outcome,
                             ![r].ret = IF outcome = "raised" THEN None
                                        ELSE Some(run[r].actions_created)]
    /\ UNCHANGED <<sku, inventory, sales, actions, audit, cache, now, rev, fc, up, ops,
                 calc, links>>

\* agent.py:292-300 with email_service.py:145-148 and 17-37: no mail without
\* an urgent action; a mail that fails returns False or raises, and
\* run_agent returns its count all the same
SendSummary(r) ==
    /\ run[r].pc = "email"
    /\ \E outcome \in (IF run[r].urgent_count = 0 THEN {"skipped", "raised"}
                       ELSE {"sent", "failed", "raised"}) :
          run' = [run EXCEPT ![r].pc = "done", ![r].mail = outcome,
                             ![r].ret = Some(run[r].actions_created)]
    /\ UNCHANGED <<sku, inventory, sales, actions, audit, cache, now, rev, fc, up, ops,
                 calc, links>>

\* run_agent has returned or raised: its locals are gone
RunReturn(r) ==
    /\ RunEnded(r)
    /\ run' = [run EXCEPT ![r] = RunIdle]
    /\ UNCHANGED <<sku, inventory, sales, actions, audit, cache, now, rev, fc, up, ops,
                 calc, links>>

----------------------------------------------------------------------------
(* approve_action and reject_action (routers/actions.py) as processes *)

Reqs == {"q1", "q2"}
\* quantities a reviewer may send as quantity_override
OverrideQtys == {10}
\* the user each request is authenticated as
UserOf(q) == IF q = "q1" THEN "u1" ELSE "u2"

RevIdle ==
    [pc |-> "idle", kind |-> "approve", action_id |-> 0, user |-> "u1",
     override |-> None, modified |-> FALSE, result |-> 0]

RevResting(q) == rev[q].pc = "idle"

\* actions.py:64-67
IsModified(kind, override, row) ==
    kind = "approve" /\ ~IsNone(override) /\ override # row.recommended_qty

\* a faulty variant of the status check: only the missing action is refused
LoadResultAnyStatus(acts, id) ==
    IF id \notin 1 .. Len(acts) THEN 404 ELSE 0

\* actions.py:59-62 and 111-114: 404 when there is no such action, 400
\* when its status is not pending, 0 when the handler goes on
LoadResult(acts, id) ==
    IF id \notin 1 .. Len(acts) THEN 404
    ELSE IF acts[id].status # "pending" THEN 400
    ELSE 0

\* actions.py:56-67 and 108-114: the handler loads the action and checks it
ReviewLoad(q, kind, id, override) ==
    /\ RevResting(q)
    /\ ops < MaxOps
    /\ ops' = ops + 1
    /\ kind = "reject" => IsNone(override)
    /\ LET req == [RevIdle EXCEPT !.kind = kind, !.action_id = id, !.user = UserOf(q),
                                  !.override = override]
       IN IF LoadResult(actions, id) # 0
          THEN rev' = [rev EXCEPT ![q] = [req EXCEPT !.pc = "done",
                                                     !.result = LoadResult(actions, id)]]
          ELSE rev' = [rev EXCEPT ![q] =
                         [req EXCEPT !.pc = "loaded",
                                     !.modified = IsModified(kind, override, actions[id])]]
    /\ UNCHANGED <<sku, inventory, sales, actions, audit, cache, now, run, fc, up,
                 calc, links>>

\* the UPDATE the session flushes: the attributes the handler assigned
\* (actions.py:68-73 and 116-118)
Reviewed(row, q, clock) ==
    [row EXCEPT !.status = IF rev[q].kind = "approve" THEN "approved" ELSE "rejected",
                !.reviewed_at = Some(clock),
                !.reviewed_by = Some(rev[q].user),
                !.recommended_qty = IF rev[q].modified THEN rev[q].override ELSE @]

\* the audit row of actions.py:82-92 and 120-130
ReviewAudit(q) ==
    IF rev[q].kind = "approve"
    THEN AuditRow("APPROVE", rev[q].action_id, rev[q].user,
                  IF rev[q].modified THEN "modified" ELSE "approved", rev[q].override)
    ELSE AuditRow("REJECT", rev[q].action_id, rev[q].user, "rejected", None)

\* a faulty variant of the commit: the decision is stored without its
\* audit row
ReviewCommitUnlogged(q) ==
    /\ rev[q].pc = "loaded"
    /\ actions' = [actions EXCEPT ![rev[q].action_id] = Reviewed(@, q, now)]
    /\ audit' = audit
    /\ rev' = [rev EXCEPT ![q].pc = IF rev[q].kind = "approve" THEN "execute" ELSE "done",
                          ![q].result = IF rev[q].kind = "approve" THEN 0 ELSE 200]
    /\ UNCHANGED <<sku, inventory, sales, cache, now, run, fc, up, ops, calc, links>>

\* actions.py:93 and 131: db.commit()
ReviewCommit(q) ==
    /\ rev[q].pc = "loaded"
    /\ actions' = [actions EXCEPT ![rev[q].action_id] = Reviewed(@, q, now)]
    /\ audit' = Append(audit, ReviewAudit(q))
    /\ rev' = [rev EXCEPT ![q].pc = IF rev[q].kind = "approve" THEN "execute" ELSE "done",
                          ![q].result = IF rev[q].kind = "approve" THEN 0 ELSE 200]
    /\ UNCHANGED <<sku, inventory, sales, cache, now, run, fc, up, ops, calc, links>>

\* _execute_action (actions.py:135-162): the mail is attempted and an
\* EXECUTE audit row is committed; the action row is not written
ExecuteAction(q) ==
    /\ rev[q].pc = "execute"
    /\ audit' = Append(audit, AuditRow("EXECUTE", rev[q].action_id, "AI Agent",
                                       "executed", None))
    /\ rev' = [rev EXCEPT ![q].pc = "done", ![q].result = 200]
    /\ UNCHANGED <<sku, inventory, sales, actions, cache, now, run, fc, up, ops,
                 calc, links>>

\* the response is sent: the handler's locals are gone
ReviewReturn(q) ==
    /\ rev[q].pc = "done"
    /\ rev' = [rev EXCEPT ![q] = RevIdle]
    /\ UNCHANGED <<sku, inventory, sales, actions, audit, cache, now, run, fc, up, ops,
                 calc, links>>

----------------------------------------------------------------------------
(* Uploads (routers/upload.py, services/csv_upload.py) *)

\* upload_inventory (csv_upload.py:164-200) for one row of a known sku,
\* then _log (upload.py:87, 123-133)
UploadInventory(s, qty) ==
    /\ ops < MaxOps
    /\ ops' = ops + 1
    /\ inventory' = [inventory EXCEPT ![s] = qty]
    /\ audit' = Append(audit, AuditRow("UPLOAD", 0, "u1", "executed", None))
    /\ UNCHANGED <<sku, sales, actions, cache, now, run, rev, fc, up, calc, links>>

CsvRow(code, day, channel, qty) ==
    [sku_code |-> code, day |-> day, channel |-> channel, quantity_sold |-> qty]

\* the sales files uploaded: ten daily rows, one row, a row on a day that
\* has one already (another channel), and a row of an unknown sku
SalesCsvs ==
    { [d \in 1 .. 10 |-> CsvRow("s2", d, "online", 15)],
      <<CsvRow("s1", 1, "retail", 4), CsvRow("zz", 1, "online", 1)>> }

\* the inventory rows uploaded
InventoryRows == {<<"s1", 200>>, <<"s1", 60>>, <<"s2", 0>>}

RECURSIVE ApplySalesRows(_, _)
\* csv_upload.py:123-158: a row of an unknown sku fails; a row whose
\* (sku, date, channel) exists overwrites quantity_sold; else it is inserted
ApplySalesRows(tbl, rows) ==
    IF rows = <<>> THEN [sales |-> tbl, inserted |-> 0, failed |-> 0]
    ELSE LET row == Head(rows)
             known == row.sku_code \in Items
             next == IF known
                     THEN [tbl EXCEPT ![row.sku_code][<<row.day, row.channel>>] =
                               row.quantity_sold]
                     ELSE tbl
             rest == ApplySalesRows(next, Tail(rows))
         IN [sales |-> rest.sales,
             inserted |-> rest.inserted + (IF known THEN 1 ELSE 0),
             failed |-> rest.failed + (IF known THEN 0 ELSE 1)]

UpIdle == [pc |-> "idle", inserted |-> 0, failed |-> 0, deleted |-> 0]

\* upload.py:55 with csv_upload.py:115-161: the rows are committed
UploadSalesRows(csv) ==
    /\ up.pc = "idle"
    /\ ops < MaxOps
    /\ ops' = ops + 1
    /\ LET res == ApplySalesRows(sales, csv)
       IN /\ sales' = res.sales
          /\ up' = [UpIdle EXCEPT !.pc = "clear", !.inserted = res.inserted,
                                  !.failed = res.failed]
    /\ UNCHANGED <<sku, inventory, actions, audit, cache, now, run, rev, fc, calc, links>>

NoEntry == <<>>

\* a faulty variant of the invalidation: no row is deleted
KeptCache(tbl) == tbl

\* upload.py:58: db.query(ForecastCache).delete() removes every row
ClearedCache(tbl) == [s \in Items |-> NoEntry]

\* upload.py:57-59: the bulk delete and its commit; deleted is the number
\* of rows the delete matched
UploadSalesClear ==
    /\ up.pc = "clear"
    /\ cache' = ClearedCache(cache)
    /\ up' = [up EXCEPT !.pc = "log",
                        !.deleted = Cardinality({s \in Items : ~IsNone(cache[s])})]
    /\ UNCHANGED <<sku, inventory, sales, actions, audit, now, run, rev, fc, ops,
                 calc, links>>

\* upload.py:61 with 123-133: _log
UploadSalesLog ==
    /\ up.pc = "log"
    /\ audit' = Append(audit, AuditRow("UPLOAD", 0, "u1", "executed", None))
    /\ up' = UpIdle
    /\ UNCHANGED <<sku, inventory, sales, actions, cache, now, run, rev, fc, ops,
                 calc, links>>

----------------------------------------------------------------------------
(* services/forecasting.py *)

FcReqs == {"f1", "f2"}

\* round(max(0, 100 - mape), 1), in tenths: the values the backtest is let
\* to produce
AccuracyLevels == {0, 875}

RowCount(rows) == Cardinality({k \in SaleKeys : rows[k] # NoRow})
DayCount(rows) == Cardinality({d \in SaleDays : \E k \in SaleKeys : k[1] = d /\ rows[k] # NoRow})

\* the exception np.polyfit raises out of linear_forecast
LinAlgError(rows) == [data |-> rows, model |-> "LinAlgError", accuracy |-> None]

\* linear_forecast (forecasting.py:91-147): the flat projection under 3
\* rows, the least-squares line otherwise.  The payload is kept as the rows
\* it was computed from.  When all rows are of one date, t is all zero
\* (forecasting.py:114), np.polyfit scales the Vandermonde matrix by a zero
\* column norm and hands NaN to the least-squares solver: by the build it
\* raises LinAlgError (solved is FALSE) or yields NaN coefficients, with
\* which max(0, 100 - mape) is 0
linear_forecast(rows, accuracy, solved) ==
    IF RowCount(rows) < 3
    THEN [data |-> rows, model |-> "moving_average", accuracy |-> None]
    ELSE IF DayCount(rows) > 1
    THEN [data |-> rows, model |-> "linear_trend", accuracy |-> Some(accuracy)]
    ELSE IF solved
    THEN [data |-> rows, model |-> "linear_trend", accuracy |-> Some(0)]
    ELSE LinAlgError(rows)

\* prophet_forecast (forecasting.py:14-88): fitted is whether Prophet ran
\* through; under 10 distinct days it raises, and every exception falls
\* back to linear_forecast, outside the try block
prophet_forecast(rows, fitted, accuracy, solved) ==
    IF fitted /\ DayCount(rows) >= 10
    THEN [data |-> rows, model |-> "prophet", accuracy |-> Some(accuracy)]
    ELSE linear_forecast(rows, accuracy, solved)

\* forecasting.py:177
ComputeForecast(rows, fitted, accuracy, solved) ==
    IF RowCount(rows) >= 10 THEN prophet_forecast(rows, fitted, accuracy, solved)
    ELSE linear_forecast(rows, accuracy, solved)

\* a faulty variant of the freshness test: the entry is served at its expiry
CacheFreshAtExpiry(entry, clock) == ~IsNone(entry) /\ Val(entry).valid_until >= clock

\* forecasting.py:160: the entry is served
CacheFresh(entry, clock) == ~IsNone(entry) /\ Val(entry).valid_until > clock

\* the dict get_forecast_for_sku returns, without computed_at
ForecastReply(payload, model, accuracy) ==
    [forecast_json |-> payload, model_used |-> model, accuracy_pct |-> accuracy]

\* the row written at forecasting.py:180-194; row_id is the request that
\* inserted the row and written_by the request that wrote it last
CacheRow(row_id, writer, result, clock) ==
    [row_id |-> row_id, written_by |-> writer, forecast_json |-> result, model_used |-> result.model,
     accuracy_pct |-> result.accuracy, computed_at |-> clock,
     valid_until |-> clock + CacheTtlHours]

FcIdle ==
    [pc |-> "idle", sku_id |-> "s1", op |-> 0, seen_row |-> None, result |-> None,
     ret |-> None, from_cache |-> FALSE, started |-> 0]

FcResting(f) == fc[f].pc = "idle"

\* forecasting.py:156-177: a fresh entry is returned; otherwise the sales
\* history is read and the forecast computed; an exception of the
\* computation ends the request (data.py:111)
ForecastRead(f, s) ==
    /\ FcResting(f)
    /\ ops < MaxOps
    /\ ops' = ops + 1
    /\ LET req == [FcIdle EXCEPT !.sku_id = s, !.op = ops + 1, !.started = now]
       IN IF CacheFresh(cache[s], now)
          THEN fc' = [fc EXCEPT ![f] =
                        [req EXCEPT !.pc = "done", !.from_cache = TRUE,
                                    !.seen_row = Some(Val(cache[s]).row_id),
                                    !.ret = Some(ForecastReply(Val(cache[s]).forecast_json,
                                                               Val(cache[s]).model_used,
                                                               Val(cache[s]).accuracy_pct))]]
          ELSE \E fitted \in BOOLEAN, accuracy \in AccuracyLevels, solved \in BOOLEAN :
                  LET result == ComputeForecast(sales[s], fitted, accuracy, solved)
                  IN fc' = [fc EXCEPT ![f] =
                              [req EXCEPT !.pc = IF result = LinAlgError(sales[s])
                                                 THEN "failed" ELSE "write",
                                          !.seen_row = IF IsNone(cache[s]) THEN None
                                                       ELSE Some(Val(cache[s]).row_id),
                                          !.result = Some(result)]]
    /\ UNCHANGED <<sku, inventory, sales, actions, audit, cache, now, run, rev, up,
                 calc, links>>

\* forecasting.py:179-202: the loaded row is updated, or a row inserted,
\* and committed.  The UPDATE of a row deleted meanwhile matches no row and
\* the INSERT of a second row for the sku breaks the unique sku_id
\* (models.py:142): the commit raises
ForecastWrite(f) ==
    /\ fc[f].pc = "write"
    /\ LET s == fc[f].sku_id
           result == Val(fc[f].result)
           updates == ~IsNone(fc[f].seen_row)
           ok == IF updates
                 THEN ~IsNone(cache[s]) /\ Val(cache[s]).row_id = Val(fc[f].seen_row)
                 ELSE IsNone(cache[s])
       IN IF ok
          THEN /\ cache' = [cache EXCEPT ![s] =
                              Some(CacheRow(IF updates THEN Val(fc[f].seen_row) ELSE fc[f].op,
                                            fc[f].op, result, now))]
               /\ fc' = [fc EXCEPT ![f].pc = "done",
                                   ![f].ret = Some(ForecastReply(result, result.model,
                                                                 result.accuracy))]
          ELSE /\ cache' = cache
               /\ fc' = [fc EXCEPT ![f].pc = "failed"]
    /\ UNCHANGED <<sku, inventory, sales, actions, audit, now, run, rev, up, ops,
                 calc, links>>

\* the response is sent: the handler's locals are gone
ForecastReturn(f) ==
    /\ fc[f].pc \in {"done", "failed"}
    /\ fc' = [fc EXCEPT ![f] = FcIdle]
    /\ UNCHANGED <<sku, inventory, sales, actions, audit, cache, now, run, rev, up, ops,
                 calc, links>>

\* time passes, an hour at a time
Tick ==
    /\ now < MaxClock
    /\ now' = now + 1
    /\ UNCHANGED <<sku, inventory, sales, actions, audit, cache, run, rev, fc, up, ops,
                 calc, links>>

----------------------------------------------------------------------------
(* Specifications *)

\* no function is being called on its own
CalcIdle == [fn |-> "none", args |-> <<>>, out |-> <<>>]

\* no handler has started, no forecast is cached, the clock is at 0
Fresh ==
    /\ cache = [s \in Items |-> NoEntry]
    /\ now = 0
    /\ run = [r \in Runs |-> RunIdle]
    /\ rev = [q \in Reqs |-> RevIdle]
    /\ fc = [f \in FcReqs |-> FcIdle]
    /\ up = UpIdle
    /\ ops = 0
    /\ calc = CalcIdle
    /\ links = LinksOnFile

\* the database after the catalogue, the stock and a sales history were
\* uploaded, before any run, review or forecast
Init ==
    /\ \E db \in InitDbs :
          /\ sku = db.sku
          /\ inventory = db.inventory
          /\ sales = db.sales
    /\ actions = <<>>
    /\ audit = <<>>
    /\ Fresh

\* no handler is between its first and its last step
Quiet ==
    /\ \A r \in Runs : RunResting(r)
    /\ \A q \in Reqs : RevResting(q)
    /\ \A f \in FcReqs : FcResting(f)
    /\ up.pc = "idle"

Overrides == {None} \cup {Some(n) : n \in OverrideQtys}

\* runs, reviews and uploads, one handler at a time (so one run process
\* stands for the scheduler job and the manual trigger alike)
NextSeq ==
    \/ \E r \in {"sched"} : Quiet /\ StartRun(r)
    \/ \E r \in {"sched"} : LoadFeedback(r)
    \/ \E r \in {"sched"} : ScanItem(r)
    \/ \E r \in {"sched"} : Summary(r)
    \/ \E r \in {"sched"} : SendSummary(r)
    \/ \E r \in {"sched"} : RunReturn(r)
    \/ \E q \in Reqs, kind \in {"approve", "reject"}, id \in 1 .. Len(actions) + 1,
          override \in Overrides :
          Quiet /\ ReviewLoad(q, kind, id, override)
    \/ \E q \in Reqs : ReviewCommit(q)
    \/ \E q \in Reqs : ExecuteAction(q)
    \/ \E q \in Reqs : ReviewReturn(q)
    \/ \E row \in InventoryRows : Quiet /\ UploadInventory(row[1], row[2])
    \/ \E csv \in SalesCsvs : Quiet /\ UploadSalesRows(csv)
    \/ UploadSalesClear
    \/ UploadSalesLog

SpecSeq == Init /\ [][NextSeq]_vars

\* runs that may overlap: the scheduler job and the manual trigger, each
\* in a session of its own
NextRuns ==
    \/ \E r \in Runs : StartRun(r)
    \/ \E r \in Runs : LoadFeedback(r)
    \/ \E r \in Runs : ScanItem(r)
    \/ \E r \in Runs : Summary(r)
    \/ \E r \in Runs : SendSummary(r)
    \/ \E r \in Runs : RunReturn(r)

\* the database DbPlain before any run
InitPlain ==
    /\ sku = DbPlain.sku
    /\ inventory = DbPlain.inventory
    /\ sales = DbPlain.sales
    /\ actions = <<>>
    /\ audit = <<>>
    /\ Fresh

SpecRuns == InitPlain /\ [][NextRuns]_vars

\* the rows a whole run adds over database db with no action in it, in a
\* calm market and with the default weights
RowsOfRun(db) ==
    LET rowsOf(s) == RowsFor("sched", <<>>, s, db.sku[s], db.inventory[s],
                             compute_daily_velocity(db.sales[s]),
                             MarketContext("neutral", "normal"), DefaultWeights, TRUE)
    IN rowsOf("s1") \o rowsOf("s2")

\* the database after one run over DbPlain or DbSlow
InitAfterRun ==
    /\ \E db \in {DbPlain, DbSlow} :
          /\ sku = db.sku
          /\ inventory = db.inventory
          /\ sales = db.sales
          /\ actions = RowsOfRun(db)
          /\ audit = << AuditRow("RETRAIN", 0, "AI Agent", "executed", None),
                        [AuditRow("GENERATE", 0, "AI Agent", "executed", None)
                           EXCEPT !.skus_scanned = 2,
                                  !.actions_created = Len(RowsOfRun(db)),
                                  !.urgent_count =
                                      Len(SelectSeq(RowsOfRun(db),
                                                    LAMBDA a : a.priority = "urgent"))] >>
    /\ Fresh

\* review requests that may overlap, each in a session of its own
NextReviews ==
    \/ \E q \in Reqs, kind \in {"approve", "reject"}, id \in 1 .. Len(actions) + 1,
          override \in Overrides :
          ReviewLoad(q, kind, id, override)
    \/ \E q \in Reqs : ReviewCommit(q)
    \/ \E q \in Reqs : ExecuteAction(q)
    \/ \E q \in Reqs : ReviewReturn(q)

SpecReviews == InitAfterRun /\ [][NextReviews]_vars

\* forecast requests, sales uploads and the clock, one handler at a time
NextCache ==
    \/ \E f \in FcReqs, s \in Items : Quiet /\ ForecastRead(f, s)
    \/ \E f \in FcReqs : ForecastWrite(f)
    \/ \E f \in FcReqs : ForecastReturn(f)
    \/ \E csv \in SalesCsvs : Quiet /\ UploadSalesRows(csv)
    \/ UploadSalesClear
    \/ UploadSalesLog
    \/ Quiet /\ Tick

SpecCache == Init /\ [][NextCache]_vars

\*   DbSparse: s1 has nine daily rows, s2 three
\*   DbOpening: both items sold on one day only, s1 in ten channels, s2 in
\*              three
DbSparse ==
    [sku |-> [s \in Items |-> SkuDefault],
     inventory |-> [s \in Items |-> 200],
     sales |-> [s \in Items |-> IF s = "s1" THEN NineSales ELSE ThreeSales]]
DbOpening ==
    [sku |-> [s \in Items |-> SkuDefault],
     inventory |-> [s \in Items |-> 200],
     sales |-> [s \in Items |-> IF s = "s1" THEN OneDaySales ELSE OpeningSales]]

\* forecasts over short sales histories
InitSparse ==
    /\ Fresh
    /\ \E db \in {DbSparse, DbOpening} :
          /\ sku = db.sku
          /\ inventory = db.inventory
          /\ sales = db.sales
    /\ actions = <<>>
    /\ audit = <<>>

SpecSparse == InitSparse /\ [][NextCache]_vars

\* the unit costs and minimum order quantities an sku is on file with
UnitCosts == {None, Some(0), Some(0 - 5), Some(10)}
Moqs == {1, 300}

\*   DbCosts: as DbPlain, with the unit cost and the moq of s1 as given
DbCosts(unit_cost, moq) ==
    [DbPlain EXCEPT !.sku["s1"].unit_cost = unit_cost, !.sku["s1"].moq = Some(moq)]

InitCosts ==
    /\ Fresh
    /\ \E unit_cost \in UnitCosts, moq \in Moqs :
          /\ sku = DbCosts(unit_cost, moq).sku
          /\ inventory = DbCosts(unit_cost, moq).inventory
          /\ sales = DbCosts(unit_cost, moq).sales
    /\ actions = <<>>
    /\ audit = <<>>

\* 22 units sold in the 30-day window
EdgeSales ==
    [k \in SaleKeys |-> IF k = <<1, "online">> THEN 15
                        ELSE IF k = <<2, "online">> THEN 7 ELSE NoRow]

\*   DbEdge: s1 sold 22 units in 30 days, has 11 in stock over a reorder
\*           point of 5 and a lead time of 14 days (the stock runs out one
\*           day after the lead time); s2 sells 5 a day and is out of stock
DbEdge ==
    [sku |-> [s \in Items |-> IF s = "s1"
                              THEN [SkuDefault EXCEPT !.reorder_point = 5,
                                                      !.lead_time_days = Some(14)]
                              ELSE SkuDefault],
     inventory |-> [s \in Items |-> IF s = "s1" THEN 11 ELSE 0],
     sales |-> [s \in Items |-> IF s = "s1" THEN EdgeSales ELSE FastSales]]

InitEdge ==
    /\ Fresh
    /\ sku = DbEdge.sku
    /\ inventory = DbEdge.inventory
    /\ sales = DbEdge.sales
    /\ actions = <<>>
    /\ audit = <<>>

\* runs, reviews and uploads, one at a time, over DbEdge
SpecEdge == InitEdge /\ [][NextSeq]_vars

\* runs, reviews and uploads, one at a time, over skus of any unit cost
SpecCosts == InitCosts /\ [][NextSeq]_vars

\* the action table and the audit log after one run over DbBusy and the
\* rejection of the markdown it proposed
RejectedMarkdown ==
    [actions |-> [i \in 1 .. Len(RowsOfRun(DbBusy)) |->
                    IF RowsOfRun(DbBusy)[i].type = "price"
                    THEN [RowsOfRun(DbBusy)[i] EXCEPT !.status = "rejected",
                                                       !.reviewed_at = Some(0),
                                                       !.reviewed_by = Some("u1")]
                    ELSE RowsOfRun(DbBusy)[i]],
     audit |-> << AuditRow("RETRAIN", 0, "AI Agent", "executed", None),
                  [AuditRow("GENERATE", 0, "AI Agent", "executed", None)
                     EXCEPT !.skus_scanned = 2,
                            !.actions_created = Len(RowsOfRun(DbBusy)),
                            !.urgent_count =
                                Len(SelectSeq(RowsOfRun(DbBusy),
                                              LAMBDA a : a.priority = "urgent"))],
                  AuditRow("REJECT", 2, "u1", "rejected", None) >>]

\* the same after two approvals of action 3 that both loaded it pending
\* (actions.py:56-93 twice): the first committed quantity first, the
\* second committed quantity second, each with its APPROVE and EXECUTE row
RacedApprovals(first, second) ==
    [actions |-> [RejectedMarkdown.actions EXCEPT
                     ![3] = [@ EXCEPT !.status = "approved",
                                      !.reviewed_at = Some(0),
                                      !.reviewed_by = Some("u2"),
                                      !.recommended_qty = Some(second)]],
     audit |-> RejectedMarkdown.audit \o
               << AuditRow("APPROVE", 3, "u1", "modified", Some(first)),
                  AuditRow("EXECUTE", 3, "AI Agent", "executed", None),
                  AuditRow("APPROVE", 3, "u2", "modified", Some(second)),
                  AuditRow("EXECUTE", 3, "AI Agent", "executed", None) >>]

\* the history h with its decisions taken 3000 hours ago
Aged(h) ==
    [actions |-> [i \in 1 .. Len(h.actions) |->
                    IF IsNone(h.actions[i].reviewed_at) THEN h.actions[i]
                    ELSE [h.actions[i] EXCEPT !.reviewed_at = Some(0 - 3000)]],
     audit |-> h.audit]

\* the review histories a behaviour starts from
Histories ==
    {RejectedMarkdown, RacedApprovals(600, 10), RacedApprovals(10, 600),
     Aged(RacedApprovals(600, 10))}

\* the database DbBusy with one of the review histories
InitReviewed ==
    /\ sku = DbBusy.sku
    /\ inventory = DbBusy.inventory
    /\ sales = DbBusy.sales
    /\ \E h \in Histories :
          /\ actions = h.actions
          /\ audit = h.audit
    /\ Fresh

\* reviews and runs, one handler at a time (so one request process stands
\* for every reviewer), over the reviewed database
NextFeedback ==
    \/ \E r \in {"sched"} : Quiet /\ StartRun(r)
    \/ \E r \in {"sched"} : LoadFeedback(r)
    \/ \E r \in {"sched"} : ScanItem(r)
    \/ \E r \in {"sched"} : Summary(r)
    \/ \E r \in {"sched"} : SendSummary(r)
    \/ \E r \in {"sched"} : RunReturn(r)
    \/ \E q \in {"q1"}, kind \in {"approve", "reject"}, id \in 1 .. Len(actions) + 1,
          override \in Overrides :
          Quiet /\ ReviewLoad(q, kind, id, override)
    \/ \E q \in {"q1"} : ReviewCommit(q)
    \/ \E q \in {"q1"} : ExecuteAction(q)
    \/ \E q \in {"q1"} : ReviewReturn(q)

SpecFeedback == InitReviewed /\ [][NextFeedback]_vars

\* the reviewed database after an upload of the catalogue that set the moq
\* of s2 to 300 (csv_upload.py:83-84)
InitHighMoq ==
    /\ sku = [DbBusy.sku EXCEPT !["s2"].moq = Some(300)]
    /\ inventory = DbBusy.inventory
    /\ sales = DbBusy.sales
    /\ \E h \in Histories :
          /\ actions = h.actions
          /\ audit = h.audit
    /\ Fresh

SpecHighMoq == InitHighMoq /\ [][NextFeedback]_vars

\* forecast requests and sales uploads that may overlap, each in a session
\* of its own, over the database DbPlain
NextForecasts ==
    \/ \E f \in FcReqs, s \in Items : ForecastRead(f, s)
    \/ \E f \in FcReqs : ForecastWrite(f)
    \/ \E f \in FcReqs : ForecastReturn(f)
    \/ \E csv \in SalesCsvs : UploadSalesRows(csv)
    \/ UploadSalesClear
    \/ UploadSalesLog
    \/ Quiet /\ Tick

SpecForecasts == InitPlain /\ [][NextForecasts]_vars

----------------------------------------------------------------------------
(* The pure functions, called on their own *)

\* the state in which function fn is about to be called with args
Calling(fn, args) ==
    /\ sku = DbPlain.sku
    /\ inventory = DbPlain.inventory
    /\ sales = DbPlain.sales
    /\ actions = <<>>
    /\ audit = <<>>
    /\ cache = [s \in Items |-> NoEntry]
    /\ now = 0
    /\ run = [r \in Runs |-> RunIdle]
    /\ rev = [q \in Reqs |-> RevIdle]
    /\ fc = [f \in FcReqs |-> FcIdle]
    /\ up = UpIdle
    /\ ops = 0
    /\ calc = [fn |-> fn, args |-> args, out |-> <<>>]
    /\ links = LinksOnFile

\* the call returns out
Returns(fn, out) ==
    /\ calc.fn = fn
    /\ calc.out = <<>>
    /\ calc' = [calc EXCEPT !.out = out]
    /\ UNCHANGED <<sku, inventory, sales, actions, audit, cache, now, run, rev, fc, up, ops,
                 links>>

\* annual demands (negative, zero, under and over one unit a year) and
\* unit costs compute_eoq is called with
EoqDemands == {[n |-> n, d |-> d] : n \in {0 - 5, 0, 1, 30, 365}, d \in {1, 10}}
EoqUnitCosts == {1, 10, 100}

\* compute_eoq for two demands at one unit cost
InitEoq ==
    \E d1 \in EoqDemands, d2 \in EoqDemands, unit_cost \in EoqUnitCosts :
        Calling("compute_eoq", <<d1, d2, unit_cost>>)

CallEoq ==
    Returns("compute_eoq", <<compute_eoq(calc.args[1], calc.args[3]),
                             compute_eoq(calc.args[2], calc.args[3])>>)

SpecEoq == InitEoq /\ [][CallEoq]_vars

\* the base quantities and the market contexts
\* adjust_reorder_qty_for_market is called with
MaxBaseQty == 120
Sentiments == {"stable", "neutral", "volatile"}
Stresses == {"low", "normal", "elevated"}
MarketContexts == {MarketContext(se, sh) : se \in Sentiments, sh \in Stresses} \cup {EmptyCtx}

InitMarket ==
    \E base_qty \in 0 .. MaxBaseQty, market_context \in MarketContexts :
        Calling("adjust_reorder_qty_for_market", <<base_qty, market_context>>)

CallMarket ==
    Returns("adjust_reorder_qty_for_market",
            <<adjust_reorder_qty_for_market(calc.args[1], calc.args[2])>>)

SpecMarket == InitMarket /\ [][CallMarket]_vars

\* the number of links an sku has
MaxLinks == 3

InitSuppliers ==
    \E n \in 0 .. MaxLinks : \E sku_suppliers \in [1 .. n -> SkuSupplierRows] :
        Calling("_pick_best_supplier", <<sku_suppliers>>)

CallSuppliers ==
    Returns("_pick_best_supplier", <<_pick_best_supplier(calc.args[1])>>)

SpecSuppliers == InitSuppliers /\ [][CallSuppliers]_vars

\* the score of csv_upload.py:254-259, times 2000: a metric that is NULL
\* or 0 adds nothing
CompositeScore(supplier) ==
    OrElse(supplier.on_time_delivery_rate, 0) * 8
    + OrElse(supplier.quality_rate, 0) * 7
    - OrElse(supplier.avg_lead_time_days, 0) * 1000
    - OrElse(supplier.cost_variance_pct, 0) * 500

\* the suppliers table before a ranking pass, in query order: an active
\* supplier not ranked yet, or an inactive one that kept rank 1
RankedRows ==
    {[supplier |-> r, is_active |-> TRUE, ai_rank |-> None] : r \in SupplierRows}
    \cup {[supplier |-> r, is_active |-> FALSE, ai_rank |-> Some(1)] : r \in SupplierRows}

\* the rows of the query of csv_upload.py:251
ActiveRows(suppliers) == {i \in 1 .. Len(suppliers) : suppliers[i].is_active}

\* a faulty variant of the position: suppliers of one score share it
PositionShared(suppliers, i) ==
    1 + Cardinality({j \in ActiveRows(suppliers) :
                       CompositeScore(suppliers[j].supplier)
                           > CompositeScore(suppliers[i].supplier)})

\* csv_upload.py:260-261: the 1-based position of row i after the stable
\* sort by descending score
PositionOf(suppliers, i) ==
    1 + Cardinality({j \in ActiveRows(suppliers) :
                       \/ CompositeScore(suppliers[j].supplier)
                              > CompositeScore(suppliers[i].supplier)
                       \/ /\ CompositeScore(suppliers[j].supplier)
                                = CompositeScore(suppliers[i].supplier)
                          /\ j < i})

\* _rank_suppliers (csv_upload.py:249-262): the table after the pass
_rank_suppliers(suppliers) ==
    [i \in 1 .. Len(suppliers) |->
        IF suppliers[i].is_active
        THEN [suppliers[i] EXCEPT !.ai_rank = Some(PositionOf(suppliers, i))]
        ELSE suppliers[i]]

\* the number of suppliers on file
MaxSuppliers == 3

InitRanks ==
    \E n \in 0 .. MaxSuppliers : \E suppliers \in [1 .. n -> RankedRows] :
        Calling("_rank_suppliers", <<suppliers>>)

CallRanks ==
    Returns("_rank_suppliers", <<_rank_suppliers(calc.args[1])>>)

SpecRanks == InitRanks /\ [][CallRanks]_vars

----------------------------------------------------------------------------
(* Properties *)

\* the audit rows of a review decision on action i
DecisionsOn(i) ==
    {k \in 1 .. Len(audit) :
        audit[k].event_type \in {"APPROVE", "REJECT"} /\ audit[k].entity_id = i}

\* the GENERATE rows of the audit log, one for each run that committed
Generated == {k \in 1 .. Len(audit) : audit[k].event_type = "GENERATE"}

\* C1: when runs, reviews and uploads do not overlap, an item never has
\* more than one pending order action, nor more than one pending action of
\* type price or return
C1_OnePendingPerItem ==
    \A s \in Items :
        /\ Cardinality(PendingOf(actions, s, {"order"})) <= 1
        /\ Cardinality(PendingOf(actions, s, {"price", "return"})) <= 1

\* a second run has committed with no new action, over an item that still
\* has the pending order and an item that still has the pending markdown
C1_Witness ==
    /\ \E j, k \in Generated :
          j < k /\ audit[j].actions_created > 0 /\ audit[k].actions_created = 0
    /\ \E s \in Items : PendingOf(actions, s, {"order"}) # {}
    /\ \E s \in Items : PendingOf(actions, s, {"price", "return"}) # {}

\* C2: an approve or reject request that names an action whose status is
\* not pending is answered 400, and neither that step nor any later step
\* of the request changes the action table or the audit log
C2_NonPendingReviewFails ==
    [][\A q \in Reqs :
          /\ (/\ rev[q].pc = "idle"
              /\ rev'[q].pc # "idle"
              /\ rev'[q].action_id \in 1 .. Len(actions)
              /\ actions[rev'[q].action_id].status # "pending")
             => /\ rev'[q].pc = "done"
                /\ rev'[q].result = 400
                /\ actions' = actions
                /\ audit' = audit
          /\ (rev[q].result = 400 /\ rev'[q] # rev[q])
             => /\ rev'[q] = RevIdle
                /\ actions' = actions
                /\ audit' = audit]_vars

\* a request was answered 400 on an action that an earlier request had
\* approved or rejected, and the action has that one decision only
C2_Witness ==
    \E q \in Reqs :
        /\ rev[q].result = 400
        /\ actions[rev[q].action_id].status \in {"approved", "rejected"}
        /\ Cardinality(DecisionsOn(rev[q].action_id)) = 1

\* C3: however two review requests on one pending action interleave, only
\* one of them takes effect: the action has one decision in the audit log
\* and the request that came second was refused
C3_OneDecisionPerAction ==
    \A i \in 1 .. Len(actions) : Cardinality(DecisionsOn(i)) <= 1

\* C4: an action whose approval has been executed has status executed
C4_ApprovedBecomesExecuted ==
    \A k \in 1 .. Len(audit) :
        audit[k].event_type = "EXECUTE"
            => actions[audit[k].entity_id].status = "executed"

\* C5: a run is not ended by the failure of one item: it goes on to the
\* items that remain and to its summary
C5_RunSurvivesItemFailure ==
    \A r \in Runs : run[r].pc # "failed"

\* the rows of the action table that run r committed, while r is between
\* its commit and its return and no other handler has run since
CommittedBy(r) == Len(actions) - run[r].actions_created + 1 .. Len(actions)

\* the item's reorder trigger fires (agent.py:144-147)
ReorderFires(s) ==
    LET velocity == compute_daily_velocity(sales[s])
    IN velocity.n > 0 /\ ReorderTrigger(inventory[s], velocity, sku[s])

C7_NotificationAfterCommit ==
    \A r \in Runs :
        /\ run[r].mail # "none" => run[r].pc = "done"
        /\ run[r].mail = "sent" =>
              \E i \in CommittedBy(r) :
                  actions[i].type = "order" /\ actions[i].priority = "urgent"
        /\ run[r].pc \in {"email", "done"} =>
              /\ Len(audit) > 0
              /\ audit[Len(audit)].event_type = "GENERATE"
              /\ audit[Len(audit)].actions_created = run[r].actions_created
              /\ Len(actions) >= run[r].actions_created
              /\ \A i \in CommittedBy(r) :
                    actions[i].status = "pending" /\ actions[i].made_by = r
        /\ run[r].pc = "done" => run[r].ret = Some(run[r].actions_created)

\* the mail of a run with an urgent action failed or raised, and the run
\* has returned the count of the actions it committed
C7_Witness ==
    \E r \in Runs :
        /\ run[r].pc = "done"
        /\ run[r].mail \in {"failed", "raised"}
        /\ run[r].urgent_count > 0
        /\ run[r].ret = Some(run[r].actions_created)
        /\ audit[Len(audit)].event_type = "GENERATE"

\* C8: a forecast request answered from the cache was made before the
\* entry's valid_until, wrote nothing and returned the payload, model and
\* accuracy of the call that computed the entry; any other request
\* recomputed, wrote the item's entry and set valid_until to the time of
\* the computation plus 6 hours
C8_CacheHitAndExpiry ==
    \A f \in FcReqs :
        fc[f].pc = "done" =>
          LET entry == cache[fc[f].sku_id]
          IN /\ ~IsNone(entry)
             /\ fc[f].ret = Some(ForecastReply(Val(entry).forecast_json,
                                               Val(entry).forecast_json.model,
                                               Val(entry).forecast_json.accuracy))
             /\ IF fc[f].from_cache
                THEN /\ fc[f].started < Val(entry).valid_until
                     /\ Val(entry).written_by # fc[f].op
                     /\ IsNone(fc[f].result)
                ELSE /\ Val(entry).written_by = fc[f].op
                     /\ Val(entry).forecast_json = Val(fc[f].result)
                     /\ Val(entry).computed_at = fc[f].started
                     /\ Val(entry).valid_until = fc[f].started + CacheTtlHours

\* a request is answered from an entry that was inserted, expired and was
\* overwritten by a later request
C8_Witness ==
    \E f \in FcReqs :
        /\ fc[f].pc = "done"
        /\ fc[f].from_cache
        /\ Val(cache[fc[f].sku_id]).written_by # Val(cache[fc[f].sku_id]).row_id
        /\ Val(cache[fc[f].sku_id]).computed_at >= CacheTtlHours
        /\ fc[f].started > Val(cache[fc[f].sku_id]).computed_at

\* C9: once a sales upload has cleared the cache there is no entry for any
\* item, and when no upload is between its rows and its clear every entry
\* and every reply is computed from the sales history as it is
C9_UploadClearsCache ==
    /\ up.pc = "log" => \A s \in Items : cache[s] = NoEntry
    /\ up.pc \in {"idle", "log"} =>
          /\ \A s \in Items :
                ~IsNone(cache[s]) => Val(cache[s]).forecast_json.data = sales[s]
          /\ \A f \in FcReqs :
                fc[f].pc = "done"
                    => Val(fc[f].ret).forecast_json.data = sales[fc[f].sku_id]

\* a sales upload has deleted an entry and left the cache empty
C9_Witness ==
    /\ up.pc = "log"
    /\ up.deleted > 0
    /\ up.inserted > 0
    /\ \A s \in Items : cache[s] = NoEntry

\* C10: two pending order actions of one item are never the work of one
\* caller, whose runs follow one another: they come from the overlapping
\* runs of the scheduler job and the manual trigger, which both passed the
\* check for a pending order before either committed
C10_DuplicatesNeedOverlap ==
    \A s \in Items :
        \A i, j \in PendingOf(actions, s, {"order"}) :
            i # j => actions[i].made_by # actions[j].made_by

\* the scheduler job and the manual trigger have each committed a pending
\* order for the same item
C10_Witness ==
    \E s \in Items :
        \E i, j \in PendingOf(actions, s, {"order"}) :
            /\ actions[i].made_by = "sched"
            /\ actions[j].made_by = "manual"

\* C11: no forecast request fails because of another writer of the cache:
\* of two requests that computed for one item both commit, and the later
\* result is the one stored
C11_NoForecastRequestFails ==
    \A f \in FcReqs : fc[f].pc # "failed"

\* C12: the qty_bias a run computes from at least 3 reviewed decisions is
\* the mean, over the actions approved with a changed quantity, of the
\* quantity the reviewer set over the quantity the engine recommended
\* (extra_data.feedback_adjusted_qty), clamped to [0.5, 2.0]
C12_QtyBiasIsMeanOverrideRatio ==
    \A r \in Runs :
        (run[r].pc = "scan" /\ ~run[r].feedback_failed /\ run[r].weights.data_points >= MinDecisions)
        => LET changed == {i \in 1 .. Len(actions) :
                              /\ actions[i].status = "approved"
                              /\ ~IsNone(ModifiedAudit(audit, i))}
               ratioSeq == SelectSeq2(
                              [i \in 1 .. Len(actions) |->
                                  IF i \in changed
                                  THEN [n |-> Val(Val(ModifiedAudit(audit, i)).qty_override),
                                        d |-> Val(actions[i].feedback_adjusted_qty)]
                                  ELSE [n |-> 0, d |-> 1]],
                              changed)
               sum == SumRat(ratioSeq)
               cnt == Cardinality(changed)
               mean == IF cnt = 0 THEN 1000
                       ELSE IF 2 * sum.n < sum.d * cnt THEN 500
                       ELSE IF sum.n > 2 * sum.d * cnt THEN 2000
                       ELSE RoundDiv(1000 * sum.n, sum.d * cnt)
           IN run[r].weights.qty_bias = mean

\* C13: the qty_bias a run works with lies in [0.5, 2.0], and the
\* confidence_score of every action a run adds or has committed lies in
\* [40, 99], with and without a per-type approval rate and also when the
\* feedback adjustment is not applied
C13_BiasAndConfidenceClamped ==
    /\ \A r \in Runs :
          /\ run[r].weights.qty_bias >= 500
          /\ run[r].weights.qty_bias <= 2000
          /\ \A i \in 1 .. Len(run[r].added) :
                /\ run[r].added[i].confidence_score >= 40000
                /\ run[r].added[i].confidence_score <= 99000
    /\ \A i \in 1 .. Len(actions) :
          /\ actions[i].confidence_score >= 40000
          /\ actions[i].confidence_score <= 99000

\* a run computed a qty_bias at the upper clamp from the review history and
\* has committed a markdown whose scaled confidence (39.0) was raised to 40
C13_Witness ==
    \E r \in Runs :
        /\ run[r].pc = "done"
        /\ run[r].weights.qty_bias = 2000
        /\ "price" \in DOMAIN run[r].weights.type_weights
        /\ \E i \in CommittedBy(r) :
              actions[i].type = "price" /\ actions[i].confidence_score = 40000

\* the confidence a run computes for the order of item s before the
\* feedback adjustment (agent.py:172-175), clamped to [40, 99]
ClampedOrderConfidence(s) ==
    Min(99000, Max(40000, OrderBaseConfidence(inventory[s],
                                              compute_daily_velocity(sales[s]), sku[s])))

\* the run r computed its weights from fewer than 3 decisions of the last
\* 90 days and applies them
WorksOnFewDecisions(r) ==
    /\ run[r].pc = "scan"
    /\ ~run[r].feedback_failed
    /\ run[r].apply_ok
    /\ Cardinality({i \in 1 .. Len(actions) :
                       /\ actions[i].status \in {"approved", "rejected"}
                       /\ Val(actions[i].reviewed_at) >= now - 2160}) < 3

\* the weights of run r are the documented defaults and leave the quantity
\* of every action the run adds unchanged
DefaultsLeaveQuantity(r) ==
    /\ run[r].weights.approval_rate = 1000
    /\ run[r].weights.qty_bias = 1000
    /\ run[r].weights.confidence_threshold = 70000
    /\ run[r].weights.type_weights = EmptyMap
    /\ run[r].weights.priority_weights = EmptyMap
    /\ \A i \in 1 .. Len(run[r].added) :
          run[r].added[i].recommended_qty = run[r].added[i].market_adjusted_qty

\* C14 (amended): with fewer than 3 decisions in the last 90 days the
\* weights are exactly the defaults, the quantity of an added action is
\* unchanged, and its confidence is the base confidence clamped to
\* [40, 99] and rounded to one decimal
C14_FewDecisionsKeepRounded ==
    \A r \in Runs :
        WorksOnFewDecisions(r) =>
          /\ DefaultsLeaveQuantity(r)
          /\ \A i \in 1 .. Len(run[r].added) :
                run[r].added[i].confidence_score =
                    IF run[r].added[i].type = "order"
                    THEN 100 * RoundDiv(ClampedOrderConfidence(run[r].added[i].sku_id), 100)
                    ELSE 78000

\* C14 as stated: with fewer than 3 decisions in the last 90 days the
\* weights are exactly the defaults, and the quantity and the confidence of
\* an added action are unchanged apart from the clamp to [40, 99]
C14_FewDecisionsKeep ==
    \A r \in Runs :
        WorksOnFewDecisions(r) =>
          /\ DefaultsLeaveQuantity(r)
          /\ \A i \in 1 .. Len(run[r].added) :
                run[r].added[i].confidence_score =
                    IF run[r].added[i].type = "order"
                    THEN ClampedOrderConfidence(run[r].added[i].sku_id)
                    ELSE 78000

\* a run over three decisions, two of them older than 90 days, works with
\* the defaults and has added an order whose base confidence (81.844) has
\* more than one decimal
C14_Witness ==
    \E r \in Runs :
        /\ WorksOnFewDecisions(r)
        /\ Cardinality({i \in 1 .. Len(actions) :
                           actions[i].status \in {"approved", "rejected"}}) >= 3
        /\ \E i \in 1 .. Len(run[r].added) :
              /\ run[r].added[i].type = "order"
              /\ ClampedOrderConfidence(run[r].added[i].sku_id) % 100 # 0

\* C15: at one unit cost compute_eoq does not decrease when the annual
\* demand grows, demands at and below zero included, and it is 50 for a
\* demand at or below zero
C15_EoqMonotone ==
    (calc.fn = "compute_eoq" /\ calc.out # <<>>) =>
        /\ calc.args[1].n * calc.args[2].d <= calc.args[2].n * calc.args[1].d
              => calc.out[1] <= calc.out[2]
        /\ calc.args[1].n <= 0 => calc.out[1] = 50

\* C16: adjust_reorder_qty_for_market returns at least the base quantity;
\* it returns the base quantity times 1.15 under volatile sentiment, then
\* times 1.10 under elevated shipping stress, each product cut to a whole
\* number, and the base quantity itself in any other (or an empty) context
C16_MarketAdjustment ==
    (calc.fn = "adjust_reorder_qty_for_market" /\ calc.out # <<>>) =>
        LET base_qty == calc.args[1]
            volatile == Get(calc.args[2], "market_sentiment", "neutral") = "volatile"
            elevated == Get(calc.args[2], "shipping_stress", "normal") = "elevated"
            q1 == IF volatile THEN (base_qty * 115) \div 100 ELSE base_qty
            q2 == IF elevated THEN (q1 * 110) \div 100 ELSE q1
        IN /\ calc.out[1] >= base_qty
           /\ calc.out[1] = q2
           /\ (~volatile /\ ~elevated) => calc.out[1] = base_qty

\* the sales rows of the item request f computed its forecast from (no
\* upload runs between a request's steps in SpecSparse)
Computing(f) == fc[f].pc \in {"write", "failed"}
Observations(f) == RowCount(sales[fc[f].sku_id])

\* C17: a forecast computed from fewer than 10 sales observations is the
\* flat projection: its model id is moving_average and its accuracy is null
C17_FewObservationsFlat ==
    \A f \in FcReqs :
        (Computing(f) /\ Observations(f) < 10) =>
            /\ Val(fc[f].result).model = "moving_average"
            /\ IsNone(Val(fc[f].result).accuracy)

\* C18: a request over at least 10 observations whose seasonal model did
\* not produce the forecast does not fail; its result is the linear-trend
\* fallback, and that result is the cache entry once the request is done
C18_FallbackIsLinearTrend ==
    \A f \in FcReqs :
        (fc[f].pc # "idle" /\ ~fc[f].from_cache /\ Observations(f) >= 10
           /\ Val(fc[f].result).model # "prophet") =>
            /\ fc[f].pc # "failed"
            /\ Val(fc[f].result).model = "linear_trend"
            /\ fc[f].pc = "done" =>
                  /\ ~IsNone(cache[fc[f].sku_id])
                  /\ Val(cache[fc[f].sku_id]).forecast_json = Val(fc[f].result)
                  /\ Val(cache[fc[f].sku_id]).model_used = "linear_trend"

\* C19: _pick_best_supplier returns no supplier when there is no link and
\* the link when there is one; of two or more links (each with its
\* supplier on file) it returns the first of those whose score is the
\* maximum, the score being on-time x 40 + quality x 35 +
\* max(0, (30 - lead time) / 30) x 15 - min(cost variance / 10, 1) x 10,
\* + 2 if preferred, with 0.8, 0.9, 14 and 5 for a missing metric
C19_BestSupplierHasMaxScore ==
    (calc.fn = "_pick_best_supplier" /\ calc.out # <<>>) =>
        LET candidates == calc.args[1]
            picked == calc.out[1]
            Metric(x, default) == IF IsNone(x) THEN default ELSE Val(x)
            Score(l) ==
                LET supplier == Val(l.supplier)
                IN Metric(supplier.on_time_delivery_rate, 80) * 40
                   + Metric(supplier.quality_rate, 90) * 35
                   + Max(0, 30 - Metric(supplier.avg_lead_time_days, 14)) * 50
                   - Min(Metric(supplier.cost_variance_pct, 5), 10) * 100
                   + (IF l.is_preferred THEN 200 ELSE 0)
        IN /\ Len(candidates) = 0 => picked = 0
           /\ Len(candidates) = 1 => picked = 1
           /\ (Len(candidates) >= 2 /\ \A i \in 1 .. Len(candidates) : ~IsNone(candidates[i].supplier)) =>
                 /\ picked \in 1 .. Len(candidates)
                 /\ \A i \in 1 .. Len(candidates) : Score(candidates[i]) <= Score(candidates[picked])
                 /\ \A i \in 1 .. picked - 1 : Score(candidates[i]) < Score(candidates[picked])

\* C20: once a run has committed, every active item that had no pending
\* order action and whose stock is at or under its reorder point (whatever
\* its velocity) or runs out within 5 days after the lead time has exactly
\* one order action of the run, pending; every other item has none
C20_OrderPerFiringTrigger ==
    \A r \in Runs :
        run[r].pc \in {"email", "done"} =>
            \A s \in Items :
                LET velocity == compute_daily_velocity(sales[s])
                    fires == \/ inventory[s] <= sku[s].reorder_point
                             \/ /\ velocity.n > 0
                                /\ StockoutNumer(inventory[s], velocity,
                                                 Val(sku[s].lead_time_days))
                                      <= 5 * velocity.n
                    had == PendingOf(actions, s, {"order"}) \ CommittedBy(r)
                    new == {i \in CommittedBy(r) :
                               actions[i].sku_id = s /\ actions[i].type = "order"}
                IN IF sku[s].is_active /\ fires /\ had = {}
                   THEN Cardinality(new) = 1 /\ \A i \in new : actions[i].status = "pending"
                   ELSE new = {}

\* the last GENERATE row of the audit log, 0 when there is none
LastGenerated == IF Generated = {} THEN 0 ELSE CHOOSE k \in Generated : \A j \in Generated : j <= k

\* the run whose summary is row k followed the run whose summary is row j
\* with nothing but runs in between: no review and no upload was logged
Consecutive(j, k) ==
    /\ j \in Generated
    /\ k \in Generated
    /\ j < k
    /\ \A m \in j + 1 .. k - 1 : audit[m].event_type = "RETRAIN"

\* what a committed run r has counted
RunCountsRight(r) ==
    LET k == LastGenerated
    IN /\ k # 0
       /\ \A i \in CommittedBy(r) : actions[i].made_by = r /\ actions[i].status = "pending"
       /\ run[r].actions_created = Cardinality(CommittedBy(r))
       /\ audit[k].actions_created = run[r].actions_created
       /\ audit[k].skus_scanned = Len(ActiveSkus)
       /\ audit[k].urgent_count =
             Cardinality({i \in CommittedBy(r) : actions[i].priority = "urgent"})
       /\ run[r].pc = "done" => run[r].ret = Some(run[r].actions_created)
       /\ \A j \in Generated : Consecutive(j, k) =>
             run[r].actions_created = 0 /\ CommittedBy(r) = {}

\* C21: a completed run returns the number of pending actions it added;
\* each run writes one GENERATE audit row, at its commit after the scan,
\* with actions_created the returned count, skus_scanned the number of
\* active items and urgent_count the number of urgent actions of the run;
\* a run that follows a run with no change in between adds nothing and
\* returns 0
C21_RunCounts ==
    /\ [](\A r \in Runs : run[r].pc \in {"email", "done"} => RunCountsRight(r))
    /\ [][Cardinality(Generated') =
            Cardinality(Generated)
              + Cardinality({r \in Runs : run[r].pc = "scan" /\ run'[r].pc = "email"})]_vars

\* a run has returned 0 right after a run that created three actions, one
\* of them urgent
C21_Witness ==
    \E r \in Runs, j \in Generated :
        /\ run[r].pc = "done"
        /\ run[r].ret = Some(0)
        /\ Consecutive(j, LastGenerated)
        /\ audit[j].actions_created = 3
        /\ audit[j].urgent_count = 1

\* C22: no step of a run, of the feedback logging, of an approval, a
\* rejection, an execution or an upload changes or removes an audit row:
\* the log only grows at its end; and the commit of an approval or a
\* rejection adds a row with the reviewer and the action
C22_AuditAppendOnly ==
    [][/\ Len(audit') >= Len(audit)
       /\ SubSeq(audit', 1, Len(audit)) = audit
       /\ \A q \in Reqs :
             (rev[q].pc = "loaded" /\ rev'[q].pc \in {"execute", "done"}) =>
                 \E k \in Len(audit) + 1 .. Len(audit') :
                     /\ audit'[k].event_type =
                           (IF rev[q].kind = "approve" THEN "APPROVE" ELSE "REJECT")
                     /\ audit'[k].user = UserOf(q)
                     /\ audit'[k].entity_id = rev[q].action_id]_vars

\* a rejection by user u1 is the last row of a log that holds the rows of a
\* run and of an upload before it
C22_Witness ==
    /\ Len(audit) >= 4
    /\ audit[Len(audit)].event_type = "REJECT"
    /\ audit[Len(audit)].user = "u1"
    /\ audit[Len(audit)].entity_id \in 1 .. Len(actions)
    /\ actions[audit[Len(audit)].entity_id].status = "rejected"
    /\ \E j, k \in 1 .. Len(audit) :
          audit[j].event_type = "GENERATE" /\ audit[k].event_type = "UPLOAD"

\* C23: every step of a run leaves the skus, the stock, the sales rows and
\* the sku-supplier links as they are and changes or removes no action of
\* the table; what it adds are pending actions and audit rows of the agent
C23_RunWritesOnlyNewRows ==
    [][(\E r \in Runs : run'[r] # run[r]) =>
          /\ sku' = sku
          /\ inventory' = inventory
          /\ sales' = sales
          /\ links' = links
          /\ cache' = cache
          /\ Len(actions') >= Len(actions)
          /\ SubSeq(actions', 1, Len(actions)) = actions
          /\ \A i \in Len(actions) + 1 .. Len(actions') : actions'[i].status = "pending"
          /\ Len(audit') >= Len(audit)
          /\ SubSeq(audit', 1, Len(audit)) = audit
          /\ \A k \in Len(audit) + 1 .. Len(audit') :
                audit'[k].event_type \in {"GENERATE", "RETRAIN"}]_vars

\* a run has committed an action of its own next to an action that was
\* reviewed before the run
C23_Witness ==
    \E r \in Runs :
        /\ run[r].pc = "done"
        /\ CommittedBy(r) # {}
        /\ \E i \in (1 .. Len(actions)) \ CommittedBy(r) :
              actions[i].status \in {"approved", "rejected"}

\* C24: the base quantity of every order a run creates is at least the
\* moq of the sku, and it is 50 floored at the moq when the unit cost of
\* the sku is 0 or negative
C24_BaseQtyFlooredAtMoq ==
    \A i \in 1 .. Len(actions) :
        actions[i].type = "order" =>
            LET item == sku[actions[i].sku_id]
            IN /\ Val(actions[i].base_eoq) >= Val(item.moq)
               /\ (~IsNone(item.unit_cost) /\ Val(item.unit_cost) <= 0) =>
                     Val(actions[i].base_eoq) = Max(50, Val(item.moq))

\* C25: every order a committed run created is pending, and its priority
\* is urgent when stock / velocity - lead time is at most 1 day, high when
\* it is over 1 and at most 3 days, normal otherwise
C25_PriorityByDaysUntilStockout ==
    \A r \in Runs :
        run[r].pc \in {"email", "done"} =>
            \A i \in CommittedBy(r) :
                actions[i].type = "order" =>
                    LET s == actions[i].sku_id
                        velocity == compute_daily_velocity(sales[s])
                        x == StockoutNumer(inventory[s], velocity,
                                           Val(sku[s].lead_time_days))
                    IN /\ actions[i].status = "pending"
                       /\ actions[i].priority =
                             (IF x <= velocity.n THEN "urgent"
                              ELSE IF x <= 3 * velocity.n THEN "high" ELSE "normal")

\* C26: once a run has committed, every active item with velocity under
\* 0.1 a day, over 50 in stock and over 180 days of supply
\* (stock / max(velocity, 0.01)) that had no pending price or return action
\* has exactly one markdown of the run: pending, of type price, priority
\* normal and value -15, whether or not the run ordered the item as well;
\* every other item has none
C26_SlowMoverIndependent ==
    \A r \in Runs :
        run[r].pc \in {"email", "done"} =>
            \A s \in Items :
                LET velocity == compute_daily_velocity(sales[s])
                    slow == /\ 10 * velocity.n < velocity.d
                            /\ inventory[s] > 50
                            /\ IF 100 * velocity.n > velocity.d
                               THEN inventory[s] * velocity.d > 180 * velocity.n
                               ELSE inventory[s] * 100 > 180
                    had == PendingOf(actions, s, {"price", "return"}) \ CommittedBy(r)
                    new == {i \in CommittedBy(r) :
                               actions[i].sku_id = s /\ actions[i].type # "order"}
                IN IF sku[s].is_active /\ slow /\ had = {}
                   THEN /\ Cardinality(new) = 1
                        /\ \A i \in new :
                              /\ actions[i].type = "price"
                              /\ actions[i].status = "pending"
                              /\ actions[i].priority = "normal"
                              /\ actions[i].recommended_value = Some(0 - 15)
                   ELSE new = {}

\* one run has committed an order and a markdown for the same item
C26_Witness ==
    \E r \in Runs :
        /\ run[r].pc = "done"
        /\ \E i, j \in CommittedBy(r) :
              /\ actions[i].sku_id = actions[j].sku_id
              /\ actions[i].type = "order"
              /\ actions[j].type = "price"
              /\ actions[j].recommended_value = Some(0 - 15)

\* C27: after a ranking pass the ranks of the n active suppliers are the
\* numbers 1 .. n, no two of them share a rank, and of two active
\* suppliers the one with the strictly higher score (0.4 x on-time + 0.35 x
\* quality - 0.5 x lead time - 0.25 x cost variance, a missing metric
\* counting 0) has the strictly smaller rank
C27_RanksArePositions ==
    (calc.fn = "_rank_suppliers" /\ calc.out # <<>>) =>
        LET ranked == calc.out[1]
            active == {i \in 1 .. Len(ranked) : ranked[i].is_active}
            Metric(x) == IF IsNone(x) THEN 0 ELSE Val(x)
            Score(i) == Metric(ranked[i].supplier.on_time_delivery_rate) * 8
                        + Metric(ranked[i].supplier.quality_rate) * 7
                        - Metric(ranked[i].supplier.avg_lead_time_days) * 1000
                        - Metric(ranked[i].supplier.cost_variance_pct) * 500
        IN /\ {Val(ranked[i].ai_rank) : i \in active} = 1 .. Cardinality(active)
           /\ \A i, j \in active : i # j => ranked[i].ai_rank # ranked[j].ai_rank
           /\ \A i, j \in active :
                 Score(i) > Score(j) => Val(ranked[i].ai_rank) < Val(ranked[j].ai_rank)

\* three active suppliers were ranked, two of them of one score and the
\* third, last in the table, of a higher score and rank 1
C27_Witness ==
    /\ calc.fn = "_rank_suppliers"
    /\ calc.out # <<>>
    /\ Len(calc.out[1]) = 3
    /\ \A i \in 1 .. 3 : calc.out[1][i].is_active
    /\ calc.out[1][1].supplier = calc.out[1][2].supplier
    /\ calc.out[1][3].ai_rank = Some(1)
    /\ calc.out[1][1].ai_rank = Some(2)
    /\ calc.out[1][2].ai_rank = Some(3)

\* C28: no forecast request that starts after a sales upload has completed
\* is answered from a cache entry computed from the sales history of before
\* the upload: a request that starts while no upload is between its commit
\* of the rows and its log, and is answered from the cache, gets a forecast
\* of the sales history as it stands (only uploads change it)
C28_NoStaleForecastAfterUpload ==
    [][\A f \in FcReqs :
          (/\ FcResting(f)
           /\ fc'[f].pc = "done"
           /\ fc'[f].from_cache
           /\ up.pc = "idle")
          => Val(fc'[f].ret).forecast_json.data = sales[fc'[f].sku_id]]_vars

\* C29: the duplicate check considers pending actions only: when the order
\* actions of an item have all been approved or rejected and its stock and
\* sales are what fires the trigger, the run that commits next adds a new
\* pending order action for the item
C29_ReviewedOrderDoesNotSuppress ==
    [][\A r \in Runs :
          (run[r].pc = "scan" /\ run'[r].pc = "email") =>
             \A s \in Items :
                LET velocity == compute_daily_velocity(sales[s])
                    reviewed == {i \in 1 .. Len(actions) :
                                    /\ actions[i].sku_id = s
                                    /\ actions[i].type = "order"
                                    /\ actions[i].status \in {"approved", "rejected"}}
                IN (/\ sku[s].is_active
                    /\ reviewed # {}
                    /\ PendingOf(actions, s, {"order"}) = {}
                    /\ velocity.n > 0
                    /\ ReorderTrigger(inventory[s], velocity, sku[s]))
                   => \E j \in Len(actions) + 1 .. Len(actions') :
                         /\ actions'[j].sku_id = s
                         /\ actions'[j].type = "order"
                         /\ actions'[j].status = "pending"
                         /\ actions'[j].made_by = r]_vars

\* the order for the out-of-stock item of DbPlain was approved, its stock
\* and sales are as they were, and the next run has committed a second,
\* pending order for it
C29_Witness ==
    /\ inventory = DbPlain.inventory
    /\ sales = DbPlain.sales
    /\ \E i, j \in 1 .. Len(actions) :
          /\ i < j
          /\ actions[i].sku_id = "s1" /\ actions[i].type = "order"
          /\ actions[i].status = "approved"
          /\ actions[j].sku_id = "s1" /\ actions[j].type = "order"
          /\ actions[j].status = "pending"
    /\ \E k \in 1 .. Len(audit) : audit[k].event_type = "APPROVE"

\* C30: every order action a run creates has a recommended_qty of at least
\* the moq of its sku, whatever the market context and whatever feedback
\* weights with qty_bias in [0.5, 2.0] the run works on
C30_RecommendedQtyAtLeastMoq ==
    [][\A r \in Runs :
          (run[r].pc = "scan" /\ run'[r].pc = "email") =>
             \A j \in Len(actions) + 1 .. Len(actions') :
                actions'[j].type = "order" =>
                   Val(actions'[j].recommended_qty) >= Val(sku[actions'[j].sku_id].moq)]_vars

====
